---- MODULE Spec2Model ----
(***************************************************************************)
(* Dialogue core of LandlordBuddy: the confirmation gate of the three task *)
(* handlers (rent estimation, applicant screening, maintenance risk), the  *)
(* intent detector, and the two turn orchestrators (the enhanced engine    *)
(* and the original engine it falls back to) behind handle_conversation.   *)
(*                                                                         *)
(* Texts are sequences of one-character strings, so that strip(), lower()  *)
(* and the substring tests of the source are computed, not assumed.        *)
(* Confidences are kept in tenths (0.3 -> 3, 0.9 -> 9).                    *)
(* Field values are naturals: 0 stands for the falsy value of the field's  *)
(* type ('' / 0 / 0.0 / False), 1..MaxVal for distinct non-default values. *)
(***************************************************************************)
EXTENDS Integers, Sequences, FiniteSets, TLC

(***************************** bounds **************************************)
\* number of distinct non-default values a field can take
MaxVal == 1

(***************************** text ****************************************)
UpperChars ==
  <<"A","B","C","D","E","F","G","H","I","J","K","L","M",
    "N","O","P","Q","R","S","T","U","V","W","X","Y","Z">>
LowerChars ==
  <<"a","b","c","d","e","f","g","h","i","j","k","l","m",
    "n","o","p","q","r","s","t","u","v","w","x","y","z">>

\* str.lower() on one character
LowerChar(c) ==
  IF \E i \in 1..26 : UpperChars[i] = c
  THEN LowerChars[CHOOSE i \in 1..26 : UpperChars[i] = c]
  ELSE c

\* a function held as the table of its values
Table(f) == f @@ <<>>

\* str.lower()
Lower(s) == Table([i \in 1..Len(s) |-> LowerChar(s[i])])

IsSpace(c) == c = " "

\* str.strip()
Strip(s) ==
  IF \A i \in 1..Len(s) : IsSpace(s[i]) THEN <<>>
  ELSE LET a == CHOOSE i \in 1..Len(s) :
                  ~IsSpace(s[i]) /\ \A j \in 1..(i-1) : IsSpace(s[j])
           b == CHOOSE i \in 1..Len(s) :
                  ~IsSpace(s[i]) /\ \A j \in (i+1)..Len(s) : IsSpace(s[j])
       IN  SubSeq(s, a, b)

\* the Python test `p in s` on strings
Contains(s, p) ==
  \E i \in 0..(Len(s) - Len(p)) : \A j \in 1..Len(p) : s[i + j] = p[j]

\* len(s.split())
WordCount(s) ==
  Cardinality({i \in 1..Len(s) : ~IsSpace(s[i]) /\ (i = 1 \/ IsSpace(s[i-1]))})

(***************************** phrase tables ******************************)
confirmation_phrases ==
  { <<"y","e","s">>,
     <<"c","o","r","r","e","c","t">>,
     <<"t","h","a","t","'","s"," ","r","i","g","h","t">>,
     <<"y","e","p">>,
     <<"c","o","n","f","i","r","m","e","d">>,
     <<"g","o"," ","a","h","e","a","d">>,
     <<"p","r","o","c","e","e","d">> }

switch_phrases ==
  { <<"f","o","r","g","e","t"," ","i","t">>,
     <<"l","e","t","'","s"," ","d","o">>,
     <<"i"," ","w","a","n","t"," ","t","o"," ","d","o">>,
     <<"s","w","i","t","c","h"," ","t","o">>,
     <<"c","h","a","n","g","e"," ","t","o">>,
     <<"d","o"," ","r","e","n","t"," ","i","n","s","t","e","a","d">>,
     <<"d","o"," ","t","e","n","a","n","t"," ","i","n","s","t","e","a","d">>,
     <<"d","o"," ","m","a","i","n","t","e","n","a","n","c","e"," ","i","n","s","t","e","a","d">>,
     <<"n","o","t"," ","t","h","i","s">>,
     <<"w","r","o","n","g"," ","t","a","s","k">>,
     <<"t","h","a","t","'","s"," ","n","o","t"," ","w","h","a","t"," ","i"," ","m","e","a","n","t">>,
     <<"i"," ","w","a","n","t"," ","r","e","n","t">>,
     <<"i"," ","w","a","n","t"," ","t","e","n","a","n","t">>,
     <<"i"," ","w","a","n","t"," ","m","a","i","n","t","e","n","a","n","c","e">> }

intent_keywords ==
  [ rent_prediction |-> { <<"r","e","n","t">>, <<"p","r","i","c","e">>, <<"e","s","t","i","m","a","t","e">>, <<"c","o","s","t">>, <<"h","o","w"," ","m","u","c","h">>, <<"p","r","i","c","i","n","g">>, <<"v","a","l","u","e">> }
  , tenant_screening |-> { <<"s","c","r","e","e","n">>, <<"t","e","n","a","n","t">>, <<"a","p","p","l","i","c","a","n","t">>, <<"b","a","c","k","g","r","o","u","n","d">>, <<"c","h","e","c","k">>, <<"a","p","p","r","o","v","e">>, <<"c","r","e","d","i","t">> }
  , maintenance_prediction |-> { <<"m","a","i","n","t","e","n","a","n","c","e">>, <<"r","e","p","a","i","r">>, <<"f","i","x">>, <<"u","p","k","e","e","p">>, <<"s","e","r","v","i","c","e">>, <<"b","r","o","k","e","n">>, <<"i","s","s","u","e">> }
  , greeting |-> { <<"h","e","l","l","o">>, <<"h","i">>, <<"h","e","y">>, <<"g","o","o","d"," ","m","o","r","n","i","n","g">>, <<"g","o","o","d"," ","a","f","t","e","r","n","o","o","n">>, <<"g","o","o","d"," ","e","v","e","n","i","n","g">> }
  , small_talk |-> { <<"h","o","w"," ","a","r","e"," ","y","o","u">>, <<"t","h","a","n","k"," ","y","o","u">>, <<"t","h","a","n","k","s">>, <<"g","o","o","d","b","y","e">>, <<"b","y","e">>, <<"h","e","l","p">> }
  ]
MessageText ==
  [ m_yes |-> <<"y","e","s">>
  , m_go_ahead |-> <<" ","G","o"," ","A","h","e","a","d"," ">>
  , m_hello |-> <<"h","e","l","l","o">>
  , m_forget_it |-> <<"f","o","r","g","e","t"," ","i","t">>
  , m_the_rent |-> <<"t","h","e"," ","r","e","n","t">>
  , m_rent_tenant |-> <<"r","e","n","t"," ","p","r","i","c","e"," ","e","s","t","i","m","a","t","e"," ","s","c","r","e","e","n"," ","t","e","n","a","n","t"," ","a","p","p","l","i","c","a","n","t">>
  , m_1bed |-> <<"1"," ","b","e","d">>
  , m_rent_1bed |-> <<"e","s","t","i","m","a","t","e"," ","r","e","n","t"," ","p","r","i","c","e"," ","f","o","r"," ","1"," ","b","e","d">>
  , m_screen_1bed |-> <<"s","c","r","e","e","n"," ","t","e","n","a","n","t"," ","a","p","p","l","i","c","a","n","t"," ","f","o","r"," ","1"," ","b","e","d">>
  , m_repair_1bed |-> <<"r","e","p","a","i","r"," ","s","e","r","v","i","c","e"," ","i","s","s","u","e"," ","i","n"," ","1"," ","b","e","d">>
  , m_hi |-> <<"H","i">>
  , m_hello_there |-> <<"H","e","l","l","o"," ","t","h","e","r","e","!">>
  , m_good_morning |-> <<"G","o","o","d"," ","m","o","r","n","i","n","g">>
  , m_thanks |-> <<"T","h","a","n","k","s"," ","f","o","r"," ","y","o","u","r"," ","h","e","l","p">>
  , m_estimate_rent |-> <<"I"," ","w","a","n","t"," ","t","o"," ","e","s","t","i","m","a","t","e"," ","r","e","n","t">>
  , m_screen |-> <<"C","a","n"," ","y","o","u"," ","s","c","r","e","e","n"," ","a"," ","t","e","n","a","n","t","?">>
  , m_long_rent |-> <<"p","l","e","a","s","e"," ","t","e","l","l"," ","m","e"," ","t","h","e"," ","r","e","n","t"," ","i"," ","s","h","o","u","l","d"," ","a","s","k"," ","f","o","r"," ","t","h","e"," ","p","l","a","c","e"," ","i"," ","o","w","n"," ","n","e","a","r"," ","t","h","e"," ","p","a","r","k"," ","t","h","i","s"," ","y","e","a","r">>
  ]

Messages == DOMAIN MessageText

(***************************** intents *************************************)
\* the three task intents, by their legacy names
Tasks == {"rent_prediction", "tenant_screening", "maintenance_prediction"}

\* iteration order of the intent_keywords dict
IntentOrder ==
  <<"rent_prediction", "tenant_screening", "maintenance_prediction",
    "greeting", "small_talk">>

IntentTypes ==
  Tasks \cup {"greeting", "small_talk", "clarification", "unknown"}

Min(a, b) == IF a < b THEN a ELSE b

\* sum(1 for keyword in keywords if keyword in message_lower)
KeywordMatches(message_lower, ty) ==
  Cardinality({k \in intent_keywords[ty] : Contains(message_lower, k)})

\* MultiIntentDetector._detect_keyword_intents
RECURSIVE KeywordIntentsFrom(_, _)
KeywordIntentsFrom(matches, order) ==
  IF order = <<>> THEN <<>>
  ELSE IF matches[Head(order)] > 0
       THEN <<[type |-> Head(order),
               confidence |-> Min(9, 3 * matches[Head(order)])]>>
              \o KeywordIntentsFrom(matches, Tail(order))
       ELSE KeywordIntentsFrom(matches, Tail(order))

detect_keyword_intents(text) ==
  KeywordIntentsFrom(
    Table([ty \in DOMAIN intent_keywords |-> KeywordMatches(Lower(text), ty)]),
    IntentOrder)

\* the keyword pass and len(message.split()) of every message of the model
KeywordIntents ==
  Table([m \in Messages |-> detect_keyword_intents(MessageText[m])])
Words == Table([m \in Messages |-> WordCount(MessageText[m])])

\* list.sort(key=confidence, reverse=True): stable, ties keep their order
RECURSIVE SortByConfidence(_)
SortByConfidence(s) ==
  IF s = <<>> THEN <<>>
  ELSE LET front == SortByConfidence(SubSeq(s, 1, Len(s) - 1))
           x     == s[Len(s)]
           n     == Cardinality({i \in 1..Len(front) :
                                   front[i].confidence >= x.confidence})
       IN  SubSeq(front, 1, n) \o <<x>> \o SubSeq(front, n + 1, Len(front))

\* a merge that appends every completion-service intent
MergeAllIntents(intents_, llm_intents) == intents_ \o llm_intents

\* the merge loop of detect_intents: a completion-service intent is appended
\* unless an intent of its type is already in the list
RECURSIVE MergeLLMIntents(_, _)
MergeLLMIntents(intents_, llm_intents) ==
  IF llm_intents = <<>> THEN intents_
  ELSE LET x == Head(llm_intents)
       IN  MergeLLMIntents(
             IF \E i \in 1..Len(intents_) : intents_[i].type = x.type
             THEN intents_ ELSE Append(intents_, x),
             Tail(llm_intents))

\* the condition under which detect_intents calls the completion service
UsesLLMPass(m) == KeywordIntents[m] = <<>> \/ Words[m] > 15

\* MultiIntentDetector.detect_intents of message m; llm_intents is what
\* _detect_llm_intents returns for it (<<>> when the call raised or was
\* unparseable)
detect_intents(m, llm_intents) ==
  SortByConfidence(IF UsesLLMPass(m)
                   THEN MergeLLMIntents(KeywordIntents[m], llm_intents)
                   ELSE KeywordIntents[m])

\* a check that counts an intent at confidence 0.7 as a high-confidence one
requires_clarification_from_07(intents_, entities) ==
  \/ intents_ = <<>>
  \/ \A i \in 1..Len(intents_) : intents_[i].confidence < 5
  \/ Cardinality({i \in 1..Len(intents_) : intents_[i].confidence >= 7}) > 1
  \/ /\ intents_[1].type \in Tasks
     /\ entities = <<>>

\* ConversationalIntelligence._requires_clarification
requires_clarification(intents_, entities) ==
  \/ intents_ = <<>>
  \/ \A i \in 1..Len(intents_) : intents_[i].confidence < 5
  \/ Cardinality({i \in 1..Len(intents_) : intents_[i].confidence > 7}) > 1
  \/ /\ intents_[1].type \in Tasks
     /\ entities = <<>>

\* primary intent of analyze_message
PrimaryIntent(intents_) ==
  IF intents_ # <<>> THEN intents_[1]
  ELSE [type |-> "unknown", confidence |-> 0]

(***************************** entities ************************************)
\* AdvancedNERProcessor._extract_custom_patterns on the messages of the
\* model: the regular-expression matches, in the order the code finds them
custom_pattern_entities ==
  Table([m \in Messages |->
     CASE m = "m_1bed" ->
            << [label |-> "BEDROOMS", start |-> 0, end |-> 1, confidence |-> 9, value |-> 1] >>
       [] m = "m_rent_1bed" ->
            << [label |-> "BEDROOMS", start |-> 24, end |-> 25, confidence |-> 9, value |-> 1] >>
       [] m = "m_screen_1bed" ->
            << [label |-> "BEDROOMS", start |-> 28, end |-> 29, confidence |-> 9, value |-> 1] >>
       [] m = "m_repair_1bed" ->
            << [label |-> "BEDROOMS", start |-> 24, end |-> 25, confidence |-> 9, value |-> 1] >>
       [] OTHER -> <<>>])

\* entities.sort(key=start): stable
RECURSIVE SortByStart(_)
SortByStart(s) ==
  IF s = <<>> THEN <<>>
  ELSE LET front == SortByStart(SubSeq(s, 1, Len(s) - 1))
           x     == s[Len(s)]
           n     == Cardinality({i \in 1..Len(front) : front[i].start <= x.start})
       IN  SubSeq(front, 1, n) \o <<x>> \o SubSeq(front, n + 1, Len(front))

Overlaps(a, b) == a.start < b.end /\ a.end > b.start

\* a loop body that keeps every entity
DedupStepKeepAll(deduplicated, entity) == Append(deduplicated, entity)

\* the loop body of _deduplicate_entities for one entity
DedupStep(deduplicated, entity) ==
  IF \E i \in 1..Len(deduplicated) : Overlaps(entity, deduplicated[i])
  THEN LET i == CHOOSE k \in 1..Len(deduplicated) :
                  /\ Overlaps(entity, deduplicated[k])
                  /\ \A j \in 1..(k - 1) : ~Overlaps(entity, deduplicated[j])
       IN  IF entity.confidence > deduplicated[i].confidence
           THEN SubSeq(deduplicated, 1, i - 1)
                  \o SubSeq(deduplicated, i + 1, Len(deduplicated))
                  \o <<entity>>
           ELSE deduplicated
  ELSE Append(deduplicated, entity)

RECURSIVE DedupLoop(_, _)
DedupLoop(deduplicated, rest) ==
  IF rest = <<>> THEN deduplicated
  ELSE DedupLoop(DedupStep(deduplicated, Head(rest)), Tail(rest))

\* AdvancedNERProcessor._deduplicate_entities
deduplicate_entities(entities) == DedupLoop(<<>>, SortByStart(entities))

\* AdvancedNERProcessor.extract_entities with no statistical model loaded
\* (self.nlp is None): the pattern matches, deduplicated
extract_entities ==
  Table([m \in Messages |-> deduplicate_entities(custom_pattern_entities[m])])

\* the dict comprehension {entity.label: normalized_value or text} of the
\* enhanced engine: later entities of a label replace earlier ones
RECURSIVE EntityDict(_)
EntityDict(entities) ==
  IF entities = <<>> THEN [k \in {} |-> 0]
  ELSE LET d == EntityDict(SubSeq(entities, 1, Len(entities) - 1))
           e == entities[Len(entities)]
       IN  (e.label :> e.value) @@ d

(***************************** message features ****************************)
\* BaseModuleHandler.needs_confirmation
needs_confirmation(message) ==
  Lower(Strip(message)) \in confirmation_phrases

\* user_requests_intent_switch
user_requests_intent_switch(message) ==
  \E phrase \in switch_phrases : Contains(Lower(message), phrase)

\* per-message tables of the text functions above
IsConfirmation ==
  Table([m \in Messages |-> needs_confirmation(MessageText[m])])
IsSwitch ==
  Table([m \in Messages |-> user_requests_intent_switch(MessageText[m])])
NeedsLLMPass ==
  Table([m \in Messages |-> UsesLLMPass(m)])

(***************************** collaborators *******************************)
\* what one call can meet: the completion service answers or raises
Envs == [llm : {"up", "down"}]

\* get_milvus_store during one call: a store, or the connection error of
\* MilvusVectorStore._connect (store_chat_message and retrieve_chat_memory
\* catch their own errors)
MilvusOutcomes == {"up", "down"}

\* NumericPredictor.predict / RuleEngine.screen inside run_model
ModelOutcomes == {"ok", "raises"}

\* answers of the completion service to the intent prompt
LLMIntentAnswers ==
  { <<>>,
    << [type |-> "unknown", confidence |-> 5] >>,
    << [type |-> "rent_prediction", confidence |-> 8] >> }

\* detect_intents per message and answer of the completion service
IntentsOf ==
  Table([m \in Messages |->
     Table([a \in LLMIntentAnswers |-> detect_intents(m, a)])])

\* MultiIntentDetector._detect_llm_intents: [] when the pass is not run,
\* when the call raises and when the answer is not JSON
detect_llm_intents(m, env) ==
  IF NeedsLLMPass[m] /\ env.llm = "up" THEN LLMIntentAnswers ELSE {<<>>}

(***************************** field sets **********************************)
required_fields ==
  [rent_prediction |->
     <<"address", "subdistrict_code", "BEDROOMS", "BATHROOMS", "SIZE", "PROPERTY TYPE">>,
   tenant_screening |->
     <<"credit_score", "income", "rent", "employment_status", "eviction_record">>,
   maintenance_prediction |->
     <<"address", "age_years", "last_service_years_ago", "seasonality">>]

Required(task) ==
  {required_fields[task][i] : i \in 1..Len(required_fields[task])}

EmptyFields == [k \in {} |-> 0]

\* dict.update
Update(d, e) == e @@ d

\* {k: v for k, v in d.items() if k in keys}
Restrict(d, keys) == Table([k \in DOMAIN d \cap keys |-> d[k]])

\* the merge loops `if v not in (None, '', 0, 0.0[, False]): merged[k] = v`
MergeNonDefault(d, e) == Restrict(e, {x \in DOMAIN e : e[x] # 0}) @@ d

\* all(f in fields and fields[f] not in (None, '', 0, 0.0) for f in required)
AllPresent(fields, task) ==
  \A f \in Required(task) : f \in DOMAIN fields /\ fields[f] # 0

\* a field test that takes False for an unfilled eviction_record
is_field_filled_no_false(key, value) == value # 0

\* TenantScreeningHandler._is_field_filled
is_field_filled(key, value) ==
  IF key = "eviction_record" THEN TRUE ELSE value # 0

\* eviction_record is a bool: its only non-default value is True
TypedValue(f, v) == IF f = "eviction_record" THEN Min(v, 1) ELSE v

\* which fields one answer of the completion service fills
ChoiceSubsets(task) ==
  LET r == required_fields[task]
  IN  { {}, Required(task) \ {r[Len(r)]}, Required(task) }

\* parsed.dict() of an extraction answer: every field of the schema, the
\* absent ones with their '' / 0 / False sentinel
ExtractChoices(task) ==
  { Table([f \in Required(task) |-> IF f \in S THEN TypedValue(f, v) ELSE 0]) :
      S \in ChoiceSubsets(task), v \in 1..MaxVal }

\* what the completion service extracts from an assistant reply: nothing,
\* or the whole summary the reply repeats
ReplyExtractChoices(task) ==
  { Table([f \in Required(task) |-> IF f \in S THEN TypedValue(f, 1) ELSE 0]) :
      S \in {{}, Required(task)} }

(***************************** task handlers *******************************)
\* one invocation of a handler's handle(): the task, whether the message was
\* a confirmation, whether handle() got as far as its confirmation test,
\* the field set that test looked at, and whether run_model was called
Call(task, confirm, gate, fields, ran) ==
  [task |-> task, confirm |-> confirm, gate |-> gate,
   fields |-> fields, ran |-> ran]

\* the "response" of a returned dict: the formatted output of run_model, the
\* missing-details sentence, or, with action "chat", the text the completion
\* service wrote, returned as it is
ResponseOf(action) ==
  CASE action = "chat" -> "reply"
    [] action = "ask_for_info" -> "missing"
    [] OTHER -> "result"

Returned(action, fields, call) ==
  [raised |-> FALSE, action |-> action, fields |-> fields, call |-> call,
   response |-> ResponseOf(action)]

\* a returned dict whose response is summarize_fields(fields)
Summarized(fields, call) ==
  [raised |-> FALSE, action |-> "chat", fields |-> fields, call |-> call,
   response |-> "summary"]

Raised(call) ==
  [raised |-> TRUE, action |-> "", fields |-> EmptyFields, call |-> call,
   response |-> ""]

\* detect_intent: the primary intent of the analysis under its legacy name
detect_intent(m, llm_intents) ==
  LET ty == PrimaryIntent(IntentsOf[m][llm_intents]).type
  IN  CASE ty \in Tasks -> ty
        [] ty \in {"greeting", "small_talk"} -> "greeting"
        [] OTHER -> "clarify_intent"

\* RentPredictionHandler.extract_fields: the field set handed in when the
\* text is not a rent request; otherwise one completion call, which raises,
\* parses into the six schema fields, or fails validation and falls back to
\* the handed-in fields overwritten by what the patterns find
RentExtractFields(is_rent, last, env, answers) ==
  IF ~is_rent THEN {[ok |-> TRUE, fields |-> last]}
  ELSE IF env.llm = "down" THEN {[ok |-> FALSE, fields |-> EmptyFields]}
  ELSE {[ok |-> TRUE, fields |-> c] : c \in answers}
       \cup {[ok |-> TRUE, fields |-> MergeNonDefault(last, c)] :
               c \in ReplyExtractChoices("rent_prediction")}

\* RentPredictionHandler.handle
RentHandle(m, last, env, llm_intents) ==
  LET task == "rent_prediction"
      confirm == IsConfirmation[m]
  IN  UNION {
        IF ~x.ok THEN {Raised(Call(task, confirm, FALSE, EmptyFields, FALSE))}
        ELSE
          LET candidate_fields_ == x.fields
              rent_fields ==
                Restrict(IF last # EmptyFields THEN last ELSE candidate_fields_,
                         Required(task))
          IN  IF confirm
              THEN IF AllPresent(rent_fields, task)
                   THEN {IF model = "ok"
                         THEN Returned("rent_prediction", rent_fields,
                                       Call(task, TRUE, TRUE, rent_fields, TRUE))
                         ELSE Raised(Call(task, TRUE, TRUE, rent_fields, TRUE)) :
                           model \in ModelOutcomes}
                   ELSE {Returned("ask_for_info", rent_fields,
                                  Call(task, TRUE, TRUE, rent_fields, FALSE))}
              ELSE IF env.llm = "down"
                   THEN {Raised(Call(task, FALSE, TRUE, EmptyFields, FALSE))}
                   ELSE {Returned("chat", y.fields,
                                  Call(task, FALSE, TRUE, EmptyFields, FALSE)) :
                           y \in UNION {RentExtractFields(reply_is_rent, candidate_fields_, env,
                                                            ReplyExtractChoices(task)) :
                                          reply_is_rent \in BOOLEAN}}
        : x \in RentExtractFields(detect_intent(m, llm_intents) = task, last, env,
                                  ExtractChoices(task)) }

\* TenantScreeningHandler.extract_fields: one completion call (not guarded),
\* then clean_fields keeps exactly the five required fields
TenantExtractFields(env, answers) ==
  IF env.llm = "down" THEN {[ok |-> FALSE, fields |-> EmptyFields]}
  ELSE {[ok |-> TRUE, fields |-> c] : c \in answers}

\* the "ensure all required fields exist with defaults" loop
WithDefaults(fields, task) ==
  Restrict(fields, Required(task)) @@ [k \in Required(task) |-> 0]

\* TenantScreeningHandler.handle up to its confirmation test: the required
\* fields of last_candidate_fields, overwritten by the extracted values that
\* are not in (None, '', 0, 0.0, False), completed with defaults
TenantFields(last, new_fields) ==
  WithDefaults(MergeNonDefault(Restrict(last, Required("tenant_screening")),
                               new_fields),
               "tenant_screening")

\* TenantScreeningHandler.handle
TenantHandle(m, last, env) ==
  LET task == "tenant_screening"
      confirm == IsConfirmation[m]
  IN  UNION {
        IF ~x.ok THEN {Raised(Call(task, confirm, FALSE, EmptyFields, FALSE))}
        ELSE
          LET tenant_fields == TenantFields(last, x.fields)
          IN  IF confirm
              THEN IF \A k \in Required(task) : is_field_filled(k, tenant_fields[k])
                   THEN {IF model = "ok"
                         THEN Returned("screen_tenant", tenant_fields,
                                       Call(task, TRUE, TRUE, tenant_fields, TRUE))
                         ELSE Raised(Call(task, TRUE, TRUE, tenant_fields, TRUE)) :
                           model \in ModelOutcomes}
                   ELSE {Returned("ask_for_info", tenant_fields,
                                  Call(task, TRUE, TRUE, tenant_fields, FALSE))}
              ELSE {IF ~y.ok
                    THEN Raised(Call(task, FALSE, TRUE, EmptyFields, FALSE))
                    ELSE Returned("chat", MergeNonDefault(tenant_fields, y.fields),
                                  Call(task, FALSE, TRUE, EmptyFields, FALSE)) :
                      y \in TenantExtractFields(env, ReplyExtractChoices(task))}
        : x \in TenantExtractFields(env, ExtractChoices(task)) }

\* MaintenancePredictionHandler.extract_fields: the completion call is
\* guarded, a failure falls back to the handed-in fields; clean_fields keeps
\* exactly the four required fields.  None of the fallback patterns matches
\* a message of the model.
MaintExtractFields(last, env, answers) ==
  {WithDefaults(last, "maintenance_prediction")}
    \cup (IF env.llm = "down" THEN {} ELSE answers)

\* MaintenancePredictionHandler.handle
MaintHandle(m, last, env) ==
  LET task == "maintenance_prediction"
      confirm == IsConfirmation[m]
  IN  UNION {
        LET merged_fields == MergeNonDefault(last, c)
        IN  IF confirm
            THEN IF AllPresent(merged_fields, task)
                 THEN {IF model = "ok"
                       THEN Returned("maintenance_prediction", merged_fields,
                                     Call(task, TRUE, TRUE, merged_fields, TRUE))
                       ELSE Raised(Call(task, TRUE, TRUE, merged_fields, TRUE)) :
                         model \in ModelOutcomes}
                 ELSE {Returned("ask_for_info", merged_fields,
                                Call(task, TRUE, TRUE, merged_fields, FALSE))}
            ELSE IF AllPresent(merged_fields, task)
                 THEN {Summarized(merged_fields,
                                  Call(task, FALSE, TRUE, EmptyFields, FALSE))}
                 ELSE IF env.llm = "down"
                      THEN {Raised(Call(task, FALSE, TRUE, EmptyFields, FALSE))}
                      ELSE {Returned("chat", MergeNonDefault(merged_fields, e),
                                     Call(task, FALSE, TRUE, EmptyFields, FALSE)) :
                              e \in MaintExtractFields(merged_fields, env,
                                                      ReplyExtractChoices(task))}
        : c \in MaintExtractFields(last, env, ExtractChoices(task)) }

\* handler.handle(history, user_message, fields) of the handler of a task
Handle(task, m, last, env, llm_intents) ==
  CASE task = "rent_prediction" -> RentHandle(m, last, env, llm_intents)
    [] task = "tenant_screening" -> TenantHandle(m, last, env)
    [] task = "maintenance_prediction" -> MaintHandle(m, last, env)

\* one tag for every task
ExecutedTagOfRent(task) == "rent_prediction"

\* the action tag a handler returns when it has run its computation
ExecutedTag(task) ==
  CASE task = "rent_prediction" -> "rent_prediction"
    [] task = "tenant_screening" -> "screen_tenant"
    [] task = "maintenance_prediction" -> "maintenance_prediction"

(***************************** orchestrators *******************************)
\* a returned turn result, with the handler invocations that led to it
Result(engine, action, fields, li, ic, calls) ==
  [raised |-> FALSE, engine |-> engine, action |-> action, fields |-> fields,
   last_intent |-> li, intent_completed |-> ic, calls |-> calls]

\* an exception leaving the engine
Failure(engine, calls) ==
  [raised |-> TRUE, engine |-> engine, action |-> "", fields |-> EmptyFields,
   last_intent |-> "none", intent_completed |-> FALSE, calls |-> calls]

\* llm_detect_intent: the primary intent of the analysis
llm_detect_intent(m, llm_intents) ==
  PrimaryIntent(IntentsOf[m][llm_intents]).type

\* a result that keeps the task whether or not it was completed
NextIntentKept(task, completed) == task

\* "last_intent": the task if it was not completed, else None
NextIntent(task, completed) == IF completed THEN "none" ELSE task

\* conversational_engine (the original engine); calls are the handler
\* invocations already made in this call of handle_conversation
conversational_engine(m, last, li, ic, env, llm_intents, calls) ==
  LET intent ==
        IF IsSwitch[m] THEN llm_detect_intent(m, llm_intents)
        ELSE IF li # "none" /\ ~ic THEN li
        ELSE llm_detect_intent(m, llm_intents)
  IN  IF intent = "greeting"
      THEN {Result("original", "greeting", EmptyFields, "none", TRUE, calls)}
      ELSE IF intent \in Tasks
      THEN {IF h.raised THEN Failure("original", Append(calls, h.call))
            ELSE LET completed ==
                       IF intent = "rent_prediction"
                       THEN h.action \in {"screen_tenant", "rent_prediction"}
                       ELSE IF intent = "tenant_screening"
                       THEN h.action = "screen_tenant"
                       ELSE h.action \in {"maintenance_prediction", "maintenance_alerts"}
                 IN  Result("original", h.action, h.fields,
                            NextIntent(intent, completed), completed,
                            Append(calls, h.call)) :
              h \in Handle(intent, m, last, env, llm_intents)}
      ELSE {Result("original", "clarify_intent", EmptyFields, "none", TRUE, calls)}

\* the branches of enhanced_conversational_engine up to the result, before
\* the assistant reply is stored
EnhancedBranches(m, last, li, ic, env, llm_intents) ==
  LET intents_ == IntentsOf[m][llm_intents]
      primary_intent == PrimaryIntent(intents_).type
      entities == extract_entities[m]
      merged_fields == Update(last, EntityDict(entities))
      Dispatch(task) ==
        {IF h.raised THEN Failure("enhanced", <<h.call>>)
         ELSE Result("enhanced", h.action, h.fields,
                     NextIntent(task, h.action = ExecutedTag(task)),
                     h.action = ExecutedTag(task), <<h.call>>) :
           h \in Handle(task, m, merged_fields, env, llm_intents)}
  IN  IF primary_intent = "greeting"
      THEN {Result("enhanced", "greeting", last, "none", TRUE, <<>>)}
      ELSE IF primary_intent = "small_talk"
      THEN {Result("enhanced", "small_talk", last, "none", TRUE, <<>>)}
      ELSE IF requires_clarification(intents_, entities)
      THEN {Result("enhanced", "clarify_intent", last, "none", TRUE, <<>>)}
      ELSE IF Len(intents_) > 1 /\ intents_[1].confidence > 7 /\ intents_[2].confidence > 7
      THEN {Result("enhanced", "clarify_intent", last, "none", TRUE, <<>>)}
      ELSE IF primary_intent \in Tasks
      THEN Dispatch(primary_intent)
      ELSE IF li # "none" /\ ~ic
      THEN IF li \in Tasks THEN Dispatch(li)
           ELSE {Result("enhanced", "clarify_intent", EmptyFields, "none", TRUE, <<>>)}
      ELSE {Result("enhanced", "clarify_intent", EmptyFields, "none", TRUE, <<>>)}

\* enhanced_conversational_engine: any exception inside the try block
\* (get_milvus_store failing to connect, a handler raising) is answered by
\* running the original engine on the same input
enhanced_conversational_engine(m, last, li, ic, env, llm_intents) ==
  LET branches == EnhancedBranches(m, last, li, ic, env, llm_intents)
      Fallback(made) ==
        UNION {conversational_engine(m, last, li, ic, env, llm_intents, c) :
                 c \in made}
  IN  UNION {
        IF milvus = "down" THEN Fallback({<<>>})
        ELSE {b \in branches : ~b.raised}
               \cup Fallback({b.calls : b \in {x \in branches : x.raised}})
        : milvus \in MilvusOutcomes }

\* handle_conversation: an exception leaving the enhanced engine is answered
\* by running the original engine once more
handle_conversation(m, last, li, ic, env, llm_intents) ==
  LET results == enhanced_conversational_engine(m, last, li, ic, env, llm_intents)
  IN  {r \in results : ~r.raised}
        \cup UNION {conversational_engine(m, last, li, ic, env, llm_intents, c) :
                      c \in {r.calls : r \in {x \in results : x.raised}}}

(***************************** the session *********************************)
VARIABLES
  candidate_fields,   \* fields the caller hands to the next call
  last_intent,        \* active task the caller hands to the next call, or "none"
  intent_completed,   \* completion flag the caller hands to the next call
  pc,                 \* "idle": before a call; "returned": a call has ended
  user_message,       \* the message of the call that has ended
  intents,            \* the intents detected for that message
  result,             \* how that call ended
  args,               \* the arguments of a function examined on its own
  out,                \* what that function returned
  consumers,          \* the attributes of each ChatConsumer instance
  models,             \* the memoized models of the module the consumers use
  request,            \* the request the server has handled last
  loader,             \* the model class attributes and the threads in get_model
  saved_properties    \* the records of the file saved_properties.csv

vars ==
  <<candidate_fields, last_intent, intent_completed,
    pc, user_message, intents, result, args, out,
    consumers, models, request, loader, saved_properties>>

\* the conversation, without the position of the caller
conversation ==
  <<candidate_fields, last_intent, intent_completed,
    user_message, intents, result>>

\* the server process
server == <<consumers, models, request, loader, saved_properties>>

\* no server process is looked at
NoServer ==
  /\ consumers = <<>>
  /\ models = <<>>
  /\ request = <<>>
  /\ loader = <<>>
  /\ saved_properties = <<>>

NoResult == Result("none", "none", EmptyFields, "none", FALSE, <<>>)

Init ==
  /\ candidate_fields = EmptyFields
  /\ last_intent = "none"
  /\ intent_completed = FALSE
  /\ pc = "idle"
  /\ user_message = "none"
  /\ intents = <<>>
  /\ result = NoResult
  /\ args = <<>>
  /\ out = <<>>
  /\ NoServer

\* the caller invokes handle_conversation with the state it holds
Converse ==
  /\ pc = "idle"
  /\ \E m \in Messages, env \in Envs :
       \E llm_intents \in detect_llm_intents(m, env) :
         \E r \in handle_conversation(m, candidate_fields, last_intent,
                                      intent_completed, env, llm_intents) :
           /\ user_message' = m
           /\ intents' = IntentsOf[m][llm_intents]
           /\ result' = r
  /\ pc' = "returned"
  /\ UNCHANGED <<candidate_fields, last_intent, intent_completed>>
  /\ UNCHANGED <<args, out, server>>

\* the caller takes the fields, last_intent and intent_completed of the
\* result for its next call; a call that raised leaves them as they were
Carry ==
  /\ pc = "returned"
  /\ IF result.raised
     THEN UNCHANGED <<candidate_fields, last_intent, intent_completed>>
     ELSE /\ candidate_fields' = result.fields
          /\ last_intent' = result.last_intent
          /\ intent_completed' = result.intent_completed
  /\ pc' = "idle"
  /\ user_message' = "none"
  /\ intents' = <<>>
  /\ result' = NoResult
  /\ UNCHANGED <<args, out, server>>

Next == Converse \/ Carry

Spec == Init /\ [][Next]_vars

(***************************** properties **********************************)
\* the messages that are a confirmation phrase once trimmed and lower-cased
ConfirmationMessages ==
  {m \in Messages : Lower(Strip(MessageText[m])) \in confirmation_phrases}

\* the caller holds an unfinished task
ActiveTask == last_intent \in Tasks /\ ~intent_completed

\* every required field of the task is in the field set with a non-default
\* value, the fields of exempt excepted
FieldsFilled(fields, task, exempt) ==
  \A f \in Required(task) :
    f \in DOMAIN fields /\ (fields[f] # 0 \/ f \in exempt)

\* the last handler invocation of the call that has ended
LastCall == result.calls[Len(result.calls)]

\* the actions of results that no handler produced
NoDispatchActions == {"greeting", "small_talk", "clarify_intent"}

C2_ActiveTaskKeepsTheTurn ==
  (pc = "returned" /\ ActiveTask /\ ~IsSwitch[user_message]) =>
    /\ result.calls # <<>>
    /\ \A i \in 1..Len(result.calls) : result.calls[i].task = last_intent

\* C3: while a task goes on without executing and without a switch phrase,
\* a required field that held a non-default value in the field set returned
\* for the turn before holds a non-default value in the field set returned
\* for this turn.
C3_FilledFieldsStayFilled ==
  (/\ pc = "returned" /\ ActiveTask /\ ~IsSwitch[user_message]
   /\ ~result.raised /\ result.last_intent = last_intent) =>
    \A f \in Required(last_intent) :
      (f \in DOMAIN candidate_fields /\ candidate_fields[f] # 0) =>
        (f \in DOMAIN result.fields /\ result.fields[f] # 0)

\* C4: a call made with an unfinished task, fields that fill every required
\* field of it and a confirmation phrase executes the task: the action is
\* the task's executed tag, intent_completed is true and last_intent is
\* unset.
C4_ConfirmationExecutes ==
  (/\ pc = "returned" /\ ActiveTask
   /\ user_message \in ConfirmationMessages
   /\ FieldsFilled(candidate_fields, last_intent, {})) =>
    /\ ~result.raised
    /\ result.action = ExecutedTag(last_intent)
    /\ result.intent_completed
    /\ result.last_intent = "none"

\* run_model raised in the call that has ended: a handler invocation that
\* called it did not return
RunModelRaised ==
  \E i \in 1..Len(result.calls) :
    result.calls[i].ran /\ (i < Len(result.calls) \/ result.raised)

\* C5: when run_model raises on a confirmed turn the exception is caught
\* and a reply is returned, and the conversation state is kept: the fields,
\* the active task, intent_completed false.
C5_ComputationFailureIsContained ==
  (pc = "returned" /\ RunModelRaised) =>
    /\ ~result.raised
    /\ result.fields = candidate_fields
    /\ result.last_intent = last_intent
    /\ ~result.intent_completed

\* C6: handle_conversation returns a result whatever fails; it never
\* raises.
C6_NeverRaises ==
  pc = "returned" => ~result.raised

\* C7: one call of handle_conversation dispatches to a handler at most once
\* and calls run_model at most once.
C7_AtMostOneDispatch ==
  pc = "returned" =>
    /\ Len(result.calls) <= 1
    /\ Cardinality({i \in 1..Len(result.calls) : result.calls[i].ran}) <= 1

\* C8: with no unfinished task, a message with two or more intents of
\* confidence above 0.7 is answered with clarify_intent, no handler is
\* invoked and last_intent stays unset.
C8_CompetingIntentsAreClarified ==
  (/\ pc = "returned" /\ ~ActiveTask
   /\ Cardinality({i \in 1..Len(intents) : intents[i].confidence > 7}) >= 2) =>
    /\ ~result.raised
    /\ result.action = "clarify_intent"
    /\ result.calls = <<>>
    /\ result.last_intent = "none"

\* C9: with no unfinished task, a message none of whose intents reaches
\* confidence 0.5 is dispatched to no handler and starts no task.
C9_NoGuessBelowHalf ==
  (/\ pc = "returned" /\ ~ActiveTask
   /\ \A i \in 1..Len(intents) : intents[i].confidence < 5) =>
    /\ result.calls = <<>>
    /\ result.last_intent = "none"

\* the result of the call that has ended is that of a handler which ran
\* its computation
HandlerExecuted ==
  /\ ~result.raised
  /\ result.calls # <<>>
  /\ LastCall.ran
  /\ result.action \notin NoDispatchActions

\* C10 as stated: in every result, of either engine, intent_completed is
\* true if and only if the dispatched handler ran its computation in that
\* turn.
C10_CompletedIffExecuted ==
  (pc = "returned" /\ ~result.raised) =>
    (result.intent_completed <=> HandlerExecuted)

\* C10 as amended: in every result, of either engine, that a dispatched
\* handler produced, intent_completed is true if and only if the handler
\* ran its computation in that turn; every result that no handler produced
\* (greeting, small talk, clarify_intent) has intent_completed true.
C10_CompletedIffExecutedOrNoDispatch ==
  (pc = "returned" /\ ~result.raised) =>
    (result.intent_completed <=>
       (HandlerExecuted \/ result.action \in NoDispatchActions))

\* the original engine returns the result of a handler that ran its
\* computation, with intent_completed true
C10_Witness ==
  /\ pc = "returned"
  /\ result.engine = "original"
  /\ HandlerExecuted
  /\ result.intent_completed

\* C11: in every result, last_intent is unset exactly when intent_completed
\* is true, and when intent_completed is false last_intent names the task
\* whose handler processed the turn.
C11_TaskClearedIffCompleted ==
  (pc = "returned" /\ ~result.raised) =>
    /\ result.last_intent = "none" <=> result.intent_completed
    /\ ~result.intent_completed =>
         /\ result.calls # <<>>
         /\ result.last_intent = LastCall.task

\* a handler has processed the turn without executing and its task is
\* carried to the next turn
C11_Witness ==
  /\ pc = "returned"
  /\ ~result.raised
  /\ ~result.intent_completed
  /\ result.calls # <<>>
  /\ result.last_intent = LastCall.task

\* C12: when the message holds a switch phrase while a task is unfinished,
\* the task is not carried over: the turn reaches the handler of that task
\* only if the intent detected from the message is that task.
C12_SwitchDropsTheTask ==
  (pc = "returned" /\ ActiveTask /\ IsSwitch[user_message]) =>
    \A i \in 1..Len(result.calls) :
      result.calls[i].task = last_intent =>
        PrimaryIntent(intents).type = last_intent

\* C13: a turn that neither executes a task nor carries a switch phrase
\* returns every field the caller had accumulated: no filled field is
\* missing from, or default in, the returned field set.
C13_FieldsKeptUnlessExecutedOrSwitched ==
  (/\ pc = "returned" /\ ~result.raised
   /\ ~HandlerExecuted /\ ~IsSwitch[user_message]) =>
    \A f \in DOMAIN candidate_fields :
      candidate_fields[f] # 0 =>
        (f \in DOMAIN result.fields /\ result.fields[f] # 0)

\* C18: every field name is in the required fields of exactly one task, so
\* a required field that a handler finds filled is a field of no other task.
C18_FieldsBelongToOneTask ==
  pc = "returned" =>
    \A i \in 1..Len(result.calls) :
      LET c == result.calls[i]
      IN  \A f \in Required(c.task) :
            (f \in DOMAIN c.fields /\ c.fields[f] # 0) =>
              \A t \in Tasks \ {c.task} : f \notin Required(t)

(***************************** screen_tenant *******************************)
\* a recommendation drawn from the risk score alone
recommend_by_score(risk_score, credit_score, eviction_record) ==
  IF risk_score >= 60 THEN "Reject"
  ELSE IF risk_score >= 30 THEN "Review" ELSE "Accept"

\* the recommendation rule of screen_tenant
recommend(risk_score, credit_score, eviction_record) ==
  IF risk_score >= 60 \/ credit_score < 500 \/ eviction_record
  THEN "Reject"
  ELSE IF risk_score >= 30 THEN "Review" ELSE "Accept"

\* tenant_screening.screen_tenant: the risk score and the recommendation
screen_tenant(credit_score, income, rent, employment_status, eviction_record) ==
  LET after_credit == IF credit_score < 600 THEN 40 ELSE 0
      after_income == after_credit + (IF income < 3 * rent THEN 40 ELSE 0)
      after_employment ==
        after_income
          + (IF Lower(employment_status) # <<"e", "m", "p", "l", "o", "y", "e", "d">>
             THEN 10 ELSE 0)
      risk_score == after_employment + (IF eviction_record THEN 30 ELSE 0)
  IN  [risk_score |-> risk_score,
       recommendation |-> recommend(risk_score, credit_score, eviction_record)]

\* the applications examined: scores, incomes and rents on both sides of
\* every threshold, three spellings of the employment status
ScreenArgs ==
  [credit_score : {450, 499, 500, 550, 599, 600, 750},
   income : {2000, 3599, 3600, 5000},
   rent : {1200},
   employment_status :
     { <<"e", "m", "p", "l", "o", "y", "e", "d">>,
       <<"E", "m", "p", "l", "o", "y", "e", "d">>,
       <<"u", "n", "e", "m", "p", "l", "o", "y", "e", "d">> },
   eviction_record : BOOLEAN]

\* no conversation is going on
NoConversation ==
  /\ candidate_fields = EmptyFields
  /\ last_intent = "none"
  /\ intent_completed = FALSE
  /\ user_message = "none"
  /\ intents = <<>>
  /\ result = NoResult

ScreenInit ==
  /\ NoConversation
  /\ NoServer
  /\ pc = "args"
  /\ args \in ScreenArgs
  /\ out = <<>>

\* RuleEngine: one application is screened
Screen ==
  /\ pc = "args"
  /\ out' = screen_tenant(args.credit_score, args.income, args.rent,
                          args.employment_status, args.eviction_record)
  /\ pc' = "applied"
  /\ UNCHANGED <<args, conversation, server>>

\* the recommendations as the strings screen_tenant returns
RecommendationText ==
  [Accept |-> <<"A", "c", "c", "e", "p", "t">>,
   Review |-> <<"R", "e", "v", "i", "e", "w">>,
   Reject |-> <<"R", "e", "j", "e", "c", "t">>]

\* TenantScreeningHandler.run_model of src/AI Assistant: the headline put
\* before the formatted result
headline(recommendation) ==
  IF Lower(RecommendationText[recommendation])
       \in {<<"a", "p", "p", "r", "o", "v", "e">>, <<"a", "c", "c", "e", "p", "t">>,
            <<"a", "p", "p", "r", "o", "v", "e", "d">>, <<"a", "c", "c", "e", "p", "t", "e", "d">>}
  THEN "Tenant Approved"
  ELSE IF Lower(RecommendationText[recommendation]) = <<"r", "e", "v", "i", "e", "w">>
  THEN "Tenant Requires Further Review"
  ELSE "Tenant Rejected"

\* TenantScreeningHandler.run_model of src/minimal_backend/AI Assistant
minimal_headline(recommendation) ==
  IF Lower(RecommendationText[recommendation]) = <<"a", "p", "p", "r", "o", "v", "e">>
  THEN "Tenant Approved"
  ELSE IF Lower(RecommendationText[recommendation]) = <<"r", "e", "v", "i", "e", "w">>
  THEN "Tenant Requires Further Review"
  ELSE "Tenant Rejected"

\* the two copies of the screening handler
HandlerCopies == {"main", "minimal_backend"}

\* run_model after screen_tenant has returned: the result is formatted
FormatResult ==
  /\ pc = "applied"
  /\ \E copy \in HandlerCopies :
       out' = [risk_score |-> out.risk_score,
               recommendation |-> out.recommendation,
               copy |-> copy,
               headline |-> IF copy = "main" THEN headline(out.recommendation)
                            ELSE minimal_headline(out.recommendation)]
  /\ pc' = "formatted"
  /\ UNCHANGED <<args, conversation, server>>

ScreenNext == Screen \/ FormatResult

SpecScreen == ScreenInit /\ [][ScreenNext]_vars

\* the points the rules of the claim give an application
C14_Points(a) ==
  (IF a.credit_score < 600 THEN 40 ELSE 0)
    + (IF a.income < 3 * a.rent THEN 40 ELSE 0)
    + (IF a.employment_status \in
            { <<"e", "m", "p", "l", "o", "y", "e", "d">>,
              <<"E", "m", "p", "l", "o", "y", "e", "d">> }
       THEN 0 ELSE 10)
    + (IF a.eviction_record THEN 30 ELSE 0)

\* C14: screen_tenant returns risk_score 40 for a credit score under 600,
\* plus 40 for an income under three times the rent, plus 10 for an
\* employment status other than 'employed' in any letter case, plus 30 for
\* an eviction record; the recommendation is Reject for a score of 60 or
\* more, a credit score under 500 or an eviction record, else Review for a
\* score of 30 or more, else Accept.  (750, 5000, 1200, 'employed', false)
\* gives 0 and Accept; (550, 2000, 1200, 'unemployed', true) gives at
\* least 80 and Reject.
C14_ScreeningRules ==
  pc = "applied" =>
    /\ out.risk_score = C14_Points(args)
    /\ out.recommendation =
         (CASE C14_Points(args) >= 60 \/ args.credit_score < 500
                 \/ args.eviction_record -> "Reject"
            [] OTHER -> IF C14_Points(args) >= 30 THEN "Review" ELSE "Accept")
    /\ (/\ args.credit_score = 750 /\ args.income = 5000
        /\ Lower(args.employment_status) = <<"e", "m", "p", "l", "o", "y", "e", "d">>
        /\ ~args.eviction_record) =>
         (out.risk_score = 0 /\ out.recommendation = "Accept")
    /\ (/\ args.credit_score = 550 /\ args.income = 2000
        /\ Len(args.employment_status) = 10 /\ args.eviction_record) =>
         (out.risk_score >= 80 /\ out.recommendation = "Reject")

\* an application with a credit score under 500 and nothing else against
\* it has been screened: 40 points, rejected on the credit score alone
C14_Witness ==
  /\ pc = "applied"
  /\ args.credit_score = 499
  /\ out.risk_score = 40
  /\ out.recommendation = "Reject"

(***************************** entity linking ******************************)
\* the field indicators of _resolve_ambiguous_number, in the order they are
\* tested; "pound" stands for the one character of the pound sign
field_indicators ==
  << [field |-> "BEDROOMS", words |->
    { <<"b", "e", "d">>,
      <<"b", "e", "d", "r", "o", "o", "m">>,
      <<"b", "r">> }],
     [field |-> "BATHROOMS", words |->
    { <<"b", "a", "t", "h">>,
      <<"b", "a", "t", "h", "r", "o", "o", "m">> }],
     [field |-> "SIZE", words |->
    { <<"s", "q", " ", "f", "t">>,
      <<"s", "q", "f", "t">>,
      <<"s", "q", "u", "a", "r", "e", " ", "f", "e", "e", "t">>,
      <<"s", "i", "z", "e">> }],
     [field |-> "credit_score", words |->
    { <<"c", "r", "e", "d", "i", "t">>,
      <<"s", "c", "o", "r", "e">> }],
     [field |-> "income", words |->
    { <<"i", "n", "c", "o", "m", "e">>,
      <<"s", "a", "l", "a", "r", "y">>,
      <<"e", "a", "r", "n">> }],
     [field |-> "rent", words |->
    { <<"r", "e", "n", "t">>,
      <<"m", "o", "n", "t", "h", "l", "y">>,
      <<"pound">> }] >>

\* characters before and after the entity that are searched
context_window == 50

DigitChars == <<"0", "1", "2", "3", "4", "5", "6", "7", "8", "9">>

IsDigit(c) == \E i \in 1..10 : DigitChars[i] = c

\* str.replace(',', '')
RECURSIVE WithoutCommas(_)
WithoutCommas(s) ==
  IF s = <<>> THEN <<>>
  ELSE IF Head(s) = "," THEN WithoutCommas(Tail(s))
  ELSE <<Head(s)>> \o WithoutCommas(Tail(s))

\* the number a string of digits writes
RECURSIVE DigitsValue(_)
DigitsValue(s) ==
  IF s = <<>> THEN 0
  ELSE 10 * DigitsValue(SubSeq(s, 1, Len(s) - 1))
         + (CHOOSE i \in 1..10 : DigitChars[i] = s[Len(s)]) - 1

\* float(str(value).replace(',', '')) for a text of digits, commas and
\* letters: the number, or -1 for ValueError
ParseFloat(text) ==
  LET s == WithoutCommas(text)
  IN  IF s # <<>> /\ \A i \in 1..Len(s) : IsDigit(s[i])
      THEN DigitsValue(s) ELSE -1

\* the Python slice s[start:end] for 0 <= start
Slice(s, start, end) == SubSeq(s, start + 1, Min(end, Len(s)))

\* a guess whose first rent threshold takes the value 10 as well
GuessByIntentInclusive(num_value, primary_intent) ==
  IF primary_intent = "rent_prediction"
  THEN IF num_value = -1 THEN "None"
       ELSE IF num_value <= 10 THEN "BEDROOMS"
       ELSE IF num_value < 20 THEN "BATHROOMS"
       ELSE IF num_value > 100 THEN "SIZE"
       ELSE "None"
  ELSE IF primary_intent = "tenant_screening"
  THEN IF num_value = -1 THEN "None"
       ELSE IF 300 <= num_value /\ num_value <= 850 THEN "credit_score"
       ELSE IF num_value > 1000 THEN "income"
       ELSE "rent"
  ELSE "None"

\* "Use intent to guess field": num_value is -1 when float() raised
GuessByIntent(num_value, primary_intent) ==
  IF primary_intent = "rent_prediction"
  THEN IF num_value = -1 THEN "None"
       ELSE IF num_value < 10 THEN "BEDROOMS"
       ELSE IF num_value < 20 THEN "BATHROOMS"
       ELSE IF num_value > 100 THEN "SIZE"
       ELSE "None"
  ELSE IF primary_intent = "tenant_screening"
  THEN IF num_value = -1 THEN "None"
       ELSE IF 300 <= num_value /\ num_value <= 850 THEN "credit_score"
       ELSE IF num_value > 1000 THEN "income"
       ELSE "rent"
  ELSE "None"

\* ContextAwareEntityLinker._resolve_ambiguous_number; primary_intent is the
\* type of the primary intent, "None" when there is none; the result is a
\* field name or "None"
resolve_ambiguous_number(entity, primary_intent) ==
  LET start == IF entity.start - context_window > 0
               THEN entity.start - context_window ELSE 0
      end == entity.end + context_window
      context == Lower(Slice(entity.context, start, end))
      hits == {i \in 1..Len(field_indicators) :
                 \E w \in field_indicators[i].words : Contains(context, w)}
      \* entity.normalized_value or entity.text, then float(): <<>> is None
      num_value ==
        IF entity.normalized_value # <<>> /\ entity.normalized_value # <<0>>
        THEN entity.normalized_value[1]
        ELSE ParseFloat(entity.text)
  IN  IF hits # {}
      THEN field_indicators[CHOOSE i \in hits : \A j \in hits : i <= j].field
      ELSE GuessByIntent(num_value, primary_intent)

\* _resolve_entity_to_field: the direct label mapping
label_mapping ==
  [ADDRESS |-> "address", POSTCODE |-> "subdistrict_code",
   BEDROOMS |-> "BEDROOMS", BATHROOMS |-> "BATHROOMS", SIZE |-> "SIZE",
   PROPERTY_TYPE |-> "PROPERTY TYPE", CREDIT_SCORE |-> "credit_score",
   INCOME |-> "income", RENT |-> "rent"]

\* ContextAwareEntityLinker._resolve_entity_to_field: a field name, "None",
\* or "AttributeError": for any other label the method reads
\* self.field_synonyms, which the linker does not have
resolve_entity_to_field(entity, primary_intent) ==
  IF entity.label \in DOMAIN label_mapping THEN label_mapping[entity.label]
  ELSE IF entity.label \in {"NUMBER", "MONEY"}
  THEN resolve_ambiguous_number(entity, primary_intent)
  ELSE "AttributeError"

\* the value link_entities stores for an entity: normalized_value if it is
\* not None, else the text; numbers and texts are kept apart by a tag
LinkedValue(entity) ==
  IF entity.normalized_value # <<>>
  THEN <<"number", entity.normalized_value[1]>>
  ELSE <<"text", entity.text>>

\* linked_fields[field_name] += value on a number already there
StoreAdding(linked, field_name, value) ==
  IF field_name \in DOMAIN linked /\ linked[field_name][1] = "number"
       /\ value[1] = "number"
  THEN (field_name :> <<"number", linked[field_name][2] + value[2]>>) @@ linked
  ELSE (field_name :> value) @@ linked

\* linked_fields[field_name] = value
Store(linked, field_name, value) == (field_name :> value) @@ linked

\* the loop of link_entities: linked holds the field values, tracked the
\* "<field>_confidence" entries
RECURSIVE LinkLoop(_, _, _, _)
LinkLoop(linked, tracked, entities, primary_intent) ==
  IF entities = <<>> THEN [raised |-> FALSE, fields |-> linked, tracked |-> tracked]
  ELSE
    LET entity == Head(entities)
        field_name == resolve_entity_to_field(entity, primary_intent)
    IN  IF field_name = "AttributeError"
        THEN [raised |-> TRUE, fields |-> EmptyFields, tracked |-> EmptyFields]
        ELSE IF field_name = "None"
        THEN LinkLoop(linked, tracked, Tail(entities), primary_intent)
        ELSE IF \/ field_name \notin DOMAIN linked
                \/ entity.confidence >
                     (IF field_name \in DOMAIN tracked THEN tracked[field_name] ELSE 0)
        THEN LinkLoop(Store(linked, field_name, LinkedValue(entity)),
                      (field_name :> entity.confidence) @@ tracked,
                      Tail(entities), primary_intent)
        ELSE LinkLoop(linked, tracked, Tail(entities), primary_intent)

\* link_entities up to its clean-up: the confidence entries start with the
\* call, current_fields carries none
LinkedWithConfidence(entities, intents_, current_fields) ==
  LinkLoop(current_fields, EmptyFields, entities,
           IF intents_ # <<>> THEN intents_[1].type ELSE "None")

\* ContextAwareEntityLinker.link_entities: the "<field>_confidence" entries
\* are dropped from what is returned
link_entities(entities, intents_, current_fields) ==
  LET linked_fields == LinkedWithConfidence(entities, intents_, current_fields)
  IN  [raised |-> linked_fields.raised, fields |-> linked_fields.fields]

\* the entities examined: two pattern matches for one field, two numbers
\* that the context does not explain, and a person name
LinkEntities ==
  { [text |-> <<"3">>, label |-> "BEDROOMS", start |-> 7, end |-> 8,
     confidence |-> 9, normalized_value |-> <<3>>, context |-> <<"i", "t", " ", "h", "a", "s", " ", "3">>],
    [text |-> <<"2">>, label |-> "BEDROOMS", start |-> 0, end |-> 1,
     confidence |-> 9, normalized_value |-> <<2>>, context |-> <<"2", " ", "b", "e", "d">>],
    [text |-> <<"3">>, label |-> "NUMBER", start |-> 7, end |-> 8,
     confidence |-> 8, normalized_value |-> <<>>, context |-> <<"i", "t", " ", "h", "a", "s", " ", "3">>],
    [text |-> <<"7", "0", "0">>, label |-> "NUMBER", start |-> 7, end |-> 10,
     confidence |-> 8, normalized_value |-> <<>>, context |-> <<"i", "t", " ", "h", "a", "s", " ", "7", "0", "0">>],
    [text |-> <<"1", " ", "a", " ", "r", "d">>, label |-> "ADDRESS", start |-> 0, end |-> 6,
     confidence |-> 9, normalized_value |-> <<>>, context |-> <<"1", " ", "a", " ", "r", "d">>],
    [text |-> <<"b", "o", "b">>, label |-> "PERSON", start |-> 0, end |-> 3,
     confidence |-> 8, normalized_value |-> <<>>, context |-> <<"b", "o", "b", " ", "h", "a", "s", " ", "3">>] }

LinkArgs ==
  [entities : {<<>>} \cup {<<e>> : e \in LinkEntities}
                \cup {<<e, f>> : e, f \in LinkEntities},
   intents : { <<>>,
               <<[type |-> "rent_prediction", confidence |-> 9]>>,
               <<[type |-> "tenant_screening", confidence |-> 9]>> },
   current_fields :
     { EmptyFields,
       "BEDROOMS" :> <<"number", 1>>,
       ("SIZE" :> <<"number", 700>>) @@ ("address" :> <<"text", <<"1", "2", " ", "o", "a", "k", " ", "r", "d">>>>) }]

LinkInit ==
  /\ NoConversation
  /\ NoServer
  /\ pc = "args"
  /\ args \in LinkArgs
  /\ out = <<>>

\* analyze_message: the entities are linked into the current fields
Link ==
  /\ pc = "args"
  /\ out' = [once |-> link_entities(args.entities, args.intents, args.current_fields)]
  /\ pc' = "linked"
  /\ UNCHANGED <<args, conversation, server>>

\* the same entities are linked into the field set just returned
LinkAgain ==
  /\ pc = "linked"
  /\ ~out.once.raised
  /\ out' = [once |-> out.once,
             twice |-> link_entities(args.entities, args.intents, out.once.fields)]
  /\ pc' = "relinked"
  /\ UNCHANGED <<args, conversation, server>>

\* entities of a later message: a place name the statistical model finds
\* (label GPE, confidence 0.8) and another bedroom count
LaterEntities ==
  { <<[text |-> <<"y", "o", "r", "k">>, label |-> "ADDRESS", start |-> 3, end |-> 7,
       confidence |-> 8, normalized_value |-> <<>>, context |-> <<"i", "n", " ", "y", "o", "r", "k">>]>>,
    <<[text |-> <<"4">>, label |-> "BEDROOMS", start |-> 0, end |-> 1,
       confidence |-> 9, normalized_value |-> <<4>>, context |-> <<"4", " ", "b", "e", "d">>]>> }

\* a later turn: the entities of another message are linked into the field
\* set the first call returned
LinkLater ==
  /\ pc = "linked"
  /\ ~out.once.raised
  /\ \E later \in LaterEntities :
       out' = [once |-> out.once, later |-> later,
               after |-> link_entities(later, args.intents, out.once.fields)]
  /\ pc' = "later"
  /\ UNCHANGED <<args, conversation, server>>

LinkNext == Link \/ LinkAgain \/ LinkLater

SpecLink == LinkInit /\ [][LinkNext]_vars

\* C15: linking the same entities, under the same intents, into the field
\* set that link_entities has returned gives that field set again.
C15_LinkingTwiceIsLinkingOnce ==
  pc = "relinked" => out.twice = out.once

\* two entities of one field have been linked twice into a field set that
\* held another value for it
C15_Witness ==
  /\ pc = "relinked"
  /\ Len(args.entities) = 2
  /\ "BEDROOMS" \in DOMAIN args.current_fields
  /\ out.once.fields["BEDROOMS"] # args.current_fields["BEDROOMS"]
  /\ out.twice.fields["BEDROOMS"] = out.once.fields["BEDROOMS"]

(****************************** deduplication ******************************)
\* spans and confidences of the entities given to _deduplicate_entities
DedupEntities ==
  { [label |-> "NUMBER", start |-> s[1], end |-> s[2], confidence |-> c, value |-> 0] :
      s \in {<<0, 10>>, <<5, 20>>, <<15, 25>>, <<8, 32>>, <<30, 35>>}, c \in {8, 9} }

DedupArgs ==
  {<<e>> : e \in DedupEntities}
    \cup {<<e, f>> : e, f \in DedupEntities}
    \cup {<<e, f, g>> : e, f, g \in DedupEntities}

DedupInit ==
  /\ NoConversation
  /\ NoServer
  /\ pc = "args"
  /\ args \in DedupArgs
  /\ out = <<>>

\* extract_entities: the entities found are deduplicated
Dedup ==
  /\ pc = "args"
  /\ out' = deduplicate_entities(args)
  /\ pc' = "applied"
  /\ UNCHANGED <<args, conversation, server>>

DedupNext == Dedup

SpecDedup == DedupInit /\ [][DedupNext]_vars

InSeq(x, s) == \E i \in 1..Len(s) : s[i] = x

\* C16: of two entities with overlapping spans and confidences c1 < c2, the
\* deduplicated output holds the c2 entity and does not hold the c1 entity.
C16_HigherConfidenceIsRetained ==
  pc = "applied" =>
    \A i, j \in 1..Len(args) :
      (Overlaps(args[i], args[j]) /\ args[i].confidence < args[j].confidence) =>
        (InSeq(args[j], out) /\ ~InSeq(args[i], out))

(*************************** ambiguous numbers *****************************)
\* the texts of the numeric entities examined, each with the number it
\* writes (-1: the text writes no number)
ResolveNumbers ==
  { <<<<"3">>, 3>>,
    <<<<"9">>, 9>>,
    <<<<"1", "0">>, 10>>,
    <<<<"1", "9">>, 19>>,
    <<<<"2", "0">>, 20>>,
    <<<<"1", "0", "0">>, 100>>,
    <<<<"1", "0", "1">>, 101>>,
    <<<<"1", "5", "0">>, 150>>,
    <<<<"2", "9", "9">>, 299>>,
    <<<<"3", "0", "0">>, 300>>,
    <<<<"8", "5", "0">>, 850>>,
    <<<<"8", "5", "1">>, 851>>,
    <<<<"1", "0", "0", "0">>, 1000>>,
    <<<<"1", ",", "0", "0", "1">>, 1001>>,
    <<<<"t", "h", "r", "e", "e">>, -1>> }

RECURSIVE Dots(_)
Dots(n) == IF n = 0 THEN <<>> ELSE <<".">> \o Dots(n - 1)

\* the messages the number stands in: no indicator word at all, one right
\* after the number, and one that starts 51 characters after the number
ResolveEntities(text) ==
  { [text |-> text, label |-> "NUMBER", start |-> 7, end |-> 7 + Len(text),
     confidence |-> 8, normalized_value |-> <<>>,
     context |-> <<"i", "t", " ", "h", "a", "s", " ">> \o text],
    [text |-> text, label |-> "NUMBER", start |-> 0, end |-> Len(text),
     confidence |-> 8, normalized_value |-> <<>>,
     context |-> text \o <<" ", "b", "a", "t", "h">>],
    [text |-> text, label |-> "NUMBER", start |-> 0, end |-> Len(text),
     confidence |-> 8, normalized_value |-> <<>>,
     context |-> text \o Dots(51) \o <<"b", "a", "t", "h">>] }

ResolveArgs ==
  UNION { { [entity |-> e, value |-> n[2], primary_intent |-> p] :
              e \in ResolveEntities(n[1]),
              p \in {"rent_prediction", "tenant_screening",
                     "maintenance_prediction", "None"} } :
          n \in ResolveNumbers }

ResolveInit ==
  /\ NoConversation
  /\ NoServer
  /\ pc = "args"
  /\ args \in ResolveArgs
  /\ out = <<>>

\* link_entities: the field of one NUMBER entity is resolved
Resolve ==
  /\ pc = "args"
  /\ out' = resolve_entity_to_field(args.entity, args.primary_intent)
  /\ pc' = "applied"
  /\ UNCHANGED <<args, conversation, server>>

ResolveNext == Resolve

SpecResolve == ResolveInit /\ [][ResolveNext]_vars

\* an indicator word lies wholly within 50 characters of the entity
C17_KeywordNear(entity) ==
  LET text == Lower(entity.context)
  IN  \E i \in 1..Len(field_indicators) : \E w \in field_indicators[i].words :
        \E p \in 1..Len(text) :
          /\ p + Len(w) - 1 <= Len(text)
          /\ SubSeq(text, p, p + Len(w) - 1) = w
          /\ p - 1 >= entity.start - 50
          /\ p - 1 + Len(w) <= entity.end + 50

C17_WitnessFarKeyword ==
  /\ pc = "applied"
  /\ args.primary_intent = "rent_prediction"
  /\ Len(args.entity.context) > 50
  /\ args.value = 150
  /\ out = "SIZE"

(***************************** the server **********************************)
\* the WebSocket connections looked at
Sessions == {1, 2}

\* most chat messages the connections send, all together
MaxTurns == 2

\* the messages sent to the server
ServerMessages == {"m_yes", "m_rent_1bed", "m_repair_1bed"}

\* the intent the frontend may send along with a message
FrontendIntents == {"none", "rent_prediction"}

\* the handlers that memoize a model in a class attribute
ModelTasks == {"rent_prediction", "maintenance_prediction"}

\* _model = None in both handler classes of a module just executed
NoModel == [t \in ModelTasks |-> "none"]

\* attributes set on the class, which all its instances share
InstanceOfClass(s) == 1

\* self: the consumer instance that serves connection s
InstanceOf(s) == s

\* the attributes of the consumer that serves connection s
StateOf(s) == consumers[InstanceOf(s)]

\* ChatConsumer.connect: the attributes of a new connection
FreshConsumer ==
  [open |-> TRUE,
   conversation_history |-> <<>>,
   candidate_fields |-> EmptyFields,
   last_rent_prediction |-> EmptyFields]

\* get_model called inside run_model, with what is memoized and whether
\* run_model went on to return: the memoized value afterwards, and
\* whether the model was read from disk
get_model(task, cache, returned) ==
  IF cache[task] = "loaded" THEN {[cache |-> cache, loads |-> {}]}
  ELSE IF cache[task] = "empty"
  THEN IF returned THEN {} ELSE {[cache |-> cache, loads |-> {}]}
  ELSE LET loaded == [cache |-> [cache EXCEPT ![task] = "loaded"], loads |-> {task}]
           \* RentPredictionHandler assigns the Booster before it loads it
           failed == [cache |-> IF task = "rent_prediction"
                                THEN [cache EXCEPT ![task] = "empty"]
                                ELSE cache,
                      loads |-> {}]
           not_reached == [cache |-> cache, loads |-> {}]
       IN  IF returned THEN {loaded} ELSE {loaded, failed, not_reached}

\* the handler invocation i of a result ended in an exception
CallRaised(r, i) == i < Len(r.calls) \/ r.raised

\* the get_model calls of one handle_conversation call, in order
RECURSIVE RunCalls(_, _, _)
RunCalls(r, i, st) ==
  IF i > Len(r.calls) THEN {st}
  ELSE LET c == r.calls[i]
       IN  IF c.ran /\ c.task \in ModelTasks
           THEN UNION { RunCalls(r, i + 1, [cache |-> g.cache,
                                            loads |-> st.loads \cup g.loads]) :
                          g \in get_model(c.task, st.cache, ~CallRaised(r, i)) }
           ELSE RunCalls(r, i + 1, st)

\* the chat messages a connection has sent
Turns(s) ==
  Cardinality({i \in 1..Len(StateOf(s).conversation_history) :
                 StateOf(s).conversation_history[i].role = "user"})

RECURSIVE AllTurns(_)
AllTurns(S) ==
  IF S = {} THEN 0
  ELSE LET s == CHOOSE x \in S : TRUE IN Turns(s) + AllTurns(S \ {s})

\* the "- label: value" lines a response may hold
MarkdownChoices == {EmptyFields, "Address" :> 1}

\* extract_fields_from_markdown on the last assistant message before the
\* message just appended
LastAssistantFields(history) ==
  LET idx == {i \in 1..(Len(history) - 1) : history[i].role = "assistant"}
  IN  IF idx = {} THEN EmptyFields
      ELSE history[CHOOSE i \in idx : \A j \in idx : j <= i].listed

\* what handle_conversation can return for one message, whatever the
\* completion service does
EngineReplies(m, fields, user_intent) ==
  UNION { UNION { handle_conversation(m, fields, user_intent, FALSE, env, llm_intents) :
                    llm_intents \in detect_llm_intents(m, env) } :
          env \in Envs }

ServerInit ==
  /\ NoConversation
  /\ pc = "idle"
  /\ args = <<>>
  /\ out = <<>>
  /\ consumers = [i \in Sessions |-> [FreshConsumer EXCEPT !.open = FALSE]]
  /\ models = [cache |-> NoModel, loaded |-> {}]
  /\ request = [session |-> 0, loads |-> {}]
  /\ loader = <<>>
  /\ saved_properties = <<>>

\* ChatConsumer.connect
Connect(s) ==
  /\ ~StateOf(s).open
  /\ consumers' = [consumers EXCEPT ![InstanceOf(s)] = FreshConsumer]
  /\ request' = [session |-> s, loads |-> {}]
  /\ UNCHANGED <<models, pc, args, out, conversation, loader, saved_properties>>

\* ChatConsumer.disconnect: nothing is done, the instance is dropped
Disconnect(s) ==
  /\ StateOf(s).open
  /\ consumers' = [consumers EXCEPT ![InstanceOf(s)] = [FreshConsumer EXCEPT !.open = FALSE]]
  /\ request' = [session |-> s, loads |-> {}]
  /\ UNCHANGED <<models, pc, args, out, conversation, loader, saved_properties>>

\* ChatConsumer.receive, a follow-up action or an alert request: answered
\* from last_rent_prediction, nothing is stored
ReceiveFollowup(s) ==
  /\ StateOf(s).open
  /\ request' = [session |-> s, loads |-> {}]
  /\ request' # request
  /\ UNCHANGED <<consumers, models, pc, args, out, conversation, loader, saved_properties>>

\* ChatConsumer.receive from the append of the user message on: the
\* attributes of the consumer afterwards, what is memoized, the models read
\* from disk and the action of the response sent
ChatTurn(self, m, user_intent, cache) ==
  LET history == Append(self.conversation_history,
                        [role |-> "user", content |-> m, listed |-> EmptyFields])
      fields == Update(self.candidate_fields, LastAssistantFields(history))
  IN  UNION { {
        (LET \* get_emergency_response when the call raised
            action == IF ~r.raised THEN r.action
                      ELSE IF m = "m_hello" THEN "greeting" ELSE "chat"
            result_fields == IF r.raised THEN EmptyFields ELSE r.fields
            said == IF r.raised THEN EmptyFields ELSE listed
        IN  [self |->
               [open |-> TRUE,
                conversation_history |->
                  Append(history, [role |-> "assistant", content |-> action,
                                   listed |-> said]),
                candidate_fields |-> Update(fields, result_fields),
                last_rent_prediction |->
                  IF action \in {"screen_tenant", "rent_prediction"}
                       /\ result_fields # EmptyFields
                  THEN result_fields
                  ELSE self.last_rent_prediction],
             cache |-> run.cache,
             loads |-> run.loads,
             action |-> action]) :
          run \in RunCalls(r, 1, [cache |-> cache, loads |-> {}]),
          listed \in MarkdownChoices } :
        r \in EngineReplies(m, fields, user_intent) }

\* ChatConsumer.receive, a chat message
Receive(s) ==
  /\ StateOf(s).open
  /\ AllTurns(Sessions) < MaxTurns
  /\ \E m \in ServerMessages, user_intent \in FrontendIntents :
       \E turn \in ChatTurn(StateOf(s), m, user_intent, models.cache) :
         /\ consumers' = [consumers EXCEPT ![InstanceOf(s)] = turn.self]
         /\ models' = [cache |-> turn.cache,
                       loaded |-> models.loaded \cup turn.loads]
         /\ request' = [session |-> s, loads |-> turn.loads]
  /\ UNCHANGED <<pc, args, out, conversation, loader, saved_properties>>

\* chat_api, a POST: the module is executed anew, so its handler classes
\* start with _model = None, and handle_conversation gets an empty session;
\* the models each such request can read from disk
ChatApiLoads ==
  UNION { UNION { {run.loads : run \in RunCalls(r, 1, [cache |-> NoModel, loads |-> {}])} :
                    r \in EngineReplies(m, EmptyFields, "none") } :
          m \in ServerMessages }

\* chat_api, a POST
ChatApi ==
  /\ \E loads \in ChatApiLoads :
       /\ models' = [models EXCEPT !.loaded = @ \cup loads]
       /\ request' = [session |-> 0, loads |-> loads]
  /\ UNCHANGED <<consumers, pc, args, out, conversation, loader, saved_properties>>

ServerNext ==
  \/ \E s \in Sessions : Connect(s)
  \/ \E s \in Sessions : Disconnect(s)
  \/ \E s \in Sessions : ReceiveFollowup(s)
  \/ \E s \in Sessions : Receive(s)
  \/ ChatApi

SpecServer == ServerInit /\ [][ServerNext]_vars

\* C19: handling a message in one session never changes the conversation
\* history, the accumulated fields or the stored last prediction of
\* another session, however the messages of the sessions interleave.
C19_SessionsAreIsolated ==
  [][\A s \in Sessions : s # request'.session => StateOf(s)' = StateOf(s)]_vars

\* a message of session 2 has been handled while session 1 held fields of
\* its own
C19_Witness ==
  /\ request.session = 2
  /\ StateOf(1).open /\ StateOf(2).open
  /\ StateOf(1).candidate_fields # EmptyFields
  /\ StateOf(2).conversation_history # <<>>
  /\ StateOf(2).candidate_fields # StateOf(1).candidate_fields

\* C20: once a get_model has succeeded in the process, no later request,
\* over the WebSocket consumer or the HTTP chat endpoint, reads that model
\* from disk again.
C20_CachedModelIsReused ==
  [][request'.loads \cap models.loaded = {}]_vars

\* ---------------------------------------------------------------------
\* The lazily populated model cache under concurrent callers:
\* RentPredictionHandler.get_model and MaintenancePredictionHandler.get_model
\* taken statement by statement. A model object is a number, 0 is None;
\* loader.objects[o] tells whether the load of object o from disk has
\* completed, loader.model[h] is the class attribute _model of handler h.

Threads == {1, 2}

\* calls of get_model in one run
MaxCalls == 3

\* model objects created in one run
MaxObjects == 3

LoadOutcomes == {"ok", "raises"}

IdleThread == [pc |-> "idle", handler |-> "none", returned |-> 0, complete |-> TRUE]

LoadInit ==
  /\ NoConversation
  /\ pc = "idle"
  /\ args = <<>>
  /\ out = <<>>
  /\ consumers = <<>>
  /\ models = <<>>
  /\ request = <<>>
  /\ saved_properties = <<>>
  /\ loader = [model |-> [h \in ModelTasks |-> 0],
               objects |-> <<>>,
               calls |-> 0,
               threads |-> [t \in Threads |-> IdleThread]]

LoadUnchanged == UNCHANGED <<conversation, pc, args, out, consumers, models, request, saved_properties>>

\* a thread enters get_model of one of the two handler classes
EnterGetModel(t) ==
  /\ loader.threads[t].pc = "idle"
  /\ loader.calls < MaxCalls
  /\ \E h \in ModelTasks :
       loader' = [loader EXCEPT !.calls = @ + 1,
                                !.threads[t] = [pc |-> "test", handler |-> h,
                                                returned |-> 0, complete |-> TRUE]]
  /\ LoadUnchanged

\* if cls._model is None
TestModel(t) ==
  /\ loader.threads[t].pc = "test"
  /\ LET h == loader.threads[t].handler
     IN  loader' = [loader EXCEPT !.threads[t].pc =
                      IF loader.model[h] # 0 THEN "return"
                      ELSE IF h = "rent_prediction" THEN "create" ELSE "load"]
  /\ LoadUnchanged

\* RentPredictionHandler: cls._model = xgb.Booster()
CreateBooster(t) ==
  /\ loader.threads[t].pc = "create"
  /\ Len(loader.objects) < MaxObjects
  /\ loader' = [loader EXCEPT !.objects = Append(@, FALSE),
                              !.model["rent_prediction"] = Len(loader.objects) + 1,
                              !.threads[t].pc = "load"]
  /\ LoadUnchanged

\* RentPredictionHandler: cls._model.load_model(cls._model_path), on the
\* object the class attribute holds now; a failure raises out of get_model
LoadBooster(t) ==
  /\ loader.threads[t].pc = "load"
  /\ loader.threads[t].handler = "rent_prediction"
  /\ \E outcome \in LoadOutcomes :
       loader' = IF outcome = "ok"
                 THEN [loader EXCEPT !.objects[loader.model["rent_prediction"]] = TRUE,
                                     !.threads[t].pc = "return"]
                 ELSE [loader EXCEPT !.threads[t] = IdleThread]
  /\ LoadUnchanged

\* MaintenancePredictionHandler: cls._model = joblib.load(cls._model_path);
\* the attribute is assigned only when the load has returned
JoblibLoad(t) ==
  /\ loader.threads[t].pc = "load"
  /\ loader.threads[t].handler = "maintenance_prediction"
  /\ Len(loader.objects) < MaxObjects
  /\ \E outcome \in LoadOutcomes :
       loader' = IF outcome = "ok"
                 THEN [loader EXCEPT !.objects = Append(@, TRUE),
                                     !.model["maintenance_prediction"] = Len(loader.objects) + 1,
                                     !.threads[t].pc = "return"]
                 ELSE [loader EXCEPT !.threads[t] = IdleThread]
  /\ LoadUnchanged

\* return cls._model
ReturnModel(t) ==
  /\ loader.threads[t].pc = "return"
  /\ LET o == loader.model[loader.threads[t].handler]
     IN  loader' = [loader EXCEPT !.threads[t].pc = "idle",
                                  !.threads[t].returned = o,
                                  !.threads[t].complete = loader.objects[o]]
  /\ LoadUnchanged

LoadNext ==
  \E t \in Threads :
    \/ EnterGetModel(t)
    \/ TestModel(t)
    \/ CreateBooster(t)
    \/ LoadBooster(t)
    \/ JoblibLoad(t)
    \/ ReturnModel(t)

SpecLoad == LoadInit /\ [][LoadNext]_vars

\* C21: get_model never returns a model object whose load from disk has
\* not completed successfully, under any interleaving of the callers and
\* after a load attempt that raised.
C21_ReturnedModelIsLoaded ==
  pc = "idle" /\ loader # <<>> =>
    \A t \in Threads : loader.threads[t].returned # 0 => loader.threads[t].complete

\* ---------------------------------------------------------------------
\* greeting detection (test_greeting.py)

\* the messages test_greeting.py expects the action 'greeting' for
GreetingMessages == {"m_hi", "m_hello_there", "m_good_morning", "m_thanks"}

\* messages that ask for one of the three tasks
TaskRequestMessages ==
  {"m_estimate_rent", "m_screen", "m_rent_1bed", "m_screen_1bed", "m_repair_1bed"}

\* a first call: no fields, no active task
FirstCall ==
  /\ pc = "returned"
  /\ candidate_fields = EmptyFields
  /\ last_intent = "none"

\* C22: with empty history and no active task, handle_conversation returns
\* the action 'greeting' for every message that is only a greeting or a
\* thanks, and never 'greeting' for a message that asks for one of the
\* three tasks.
C22_GreetingsAreGreeted ==
  FirstCall =>
    /\ user_message \in GreetingMessages => result.action = "greeting"
    /\ user_message \in TaskRequestMessages => result.action # "greeting"


\* ---------------------------------------------------------------------
\* ConversationalIntelligence.analyze_message on one message, given what
\* the completion service does when the intent pass asks it

\* intent names the completion service may answer with; "lease_renewal"
\* is not a member of IntentType
AnsweredTypes == {"rent_prediction", "tenant_screening", "greeting", "lease_renewal"}

\* confidences the completion service may answer with, in tenths
AnsweredConfidences == {3, 5, 7, 8}

AnsweredIntents == [type : AnsweredTypes, confidence : AnsweredConfidences]

\* self.llm.invoke raises; the content is not JSON; the content is JSON
\* but no object; the content is an object with a list of intents
LLMResponses ==
  {[kind |-> k, intents |-> <<>>] : k \in {"raises", "not_json", "not_object"}}
    \cup {[kind |-> "json", intents |-> s] :
            s \in {<<>>} \cup {<<x>> : x \in AnsweredIntents}
                    \cup {<<x, y>> : x \in AnsweredIntents, y \in AnsweredIntents}}

\* IntentType(intent_type_str), ValueError answered with IntentType.UNKNOWN
IntentTypeOf(name) == IF name \in IntentTypes THEN name ELSE "unknown"

\* an answer that stands for a failed pass
llm_intents_unknown_on_failure(response) ==
  IF response.kind = "json"
  THEN [i \in 1..Len(response.intents) |->
          [type |-> IntentTypeOf(response.intents[i].type),
           confidence |-> response.intents[i].confidence]]
  ELSE <<[type |-> "unknown", confidence |-> 5]>>

\* MultiIntentDetector._detect_llm_intents after self.llm.invoke: [] from
\* both except clauses
llm_intents_of(response) ==
  IF response.kind = "json"
  THEN [i \in 1..Len(response.intents) |->
          [type |-> IntentTypeOf(response.intents[i].type),
           confidence |-> response.intents[i].confidence]]
  ELSE <<>>

\* ConversationalIntelligence.analyze_message
analyze_message(m, response) ==
  LET entities == extract_entities[m]
      found == detect_intents(m, llm_intents_of(response))
  IN  [intents |-> found,
       entities |-> entities,
       primary_intent |-> PrimaryIntent(found),
       requires_clarification |-> requires_clarification(found, entities)]

AnalyzeArgs == [message : Messages, response : LLMResponses]

AnalyzeInit ==
  /\ NoConversation
  /\ NoServer
  /\ pc = "args"
  /\ args \in AnalyzeArgs
  /\ out = <<>>

Analyze ==
  /\ pc = "args"
  /\ out' = analyze_message(args.message, args.response)
  /\ pc' = "applied"
  /\ UNCHANGED <<args, conversation, server>>

AnalyzeNext == Analyze

SpecAnalyze == AnalyzeInit /\ [][AnalyzeNext]_vars

\* the three conditions of the claim on the analysis returned
NoConfidentIntent ==
  ~\E i \in 1..Len(out.intents) : out.intents[i].confidence >= 5

SeveralHighIntents ==
  \E i, j \in 1..Len(out.intents) :
    i # j /\ out.intents[i].confidence > 7 /\ out.intents[j].confidence > 7

TaskWithoutEntities ==
  /\ Len(out.intents) > 0
  /\ out.intents[1].type \in Tasks
  /\ Len(out.entities) = 0

\* C23: analyze_message sets requires_clarification exactly when no
\* detected intent has confidence >= 0.5, or two or more detected intents
\* have confidence above 0.7, or the top-ranked intent is one of the three
\* task intents and no entity was extracted; in no other case.
C23_ClarificationExactlyWhen ==
  pc = "applied" =>
    (out.requires_clarification <=>
       NoConfidentIntent \/ SeveralHighIntents \/ TaskWithoutEntities)

\* two task intents at confidence 0.7 exactly and an entity: no clarification
C23_Witness ==
  /\ pc = "applied"
  /\ ~out.requires_clarification
  /\ Len(out.intents) = 2
  /\ out.intents[1].confidence = 7 /\ out.intents[2].confidence = 7
  /\ out.intents[1].type \in Tasks
  /\ Len(out.entities) > 0

\* the intents in the order they were detected: the keyword pass, then the
\* answer of the completion service
Detected ==
  KeywordIntents[args.message] \o llm_intents_of(args.response)

\* the place of the first intent of a type in a list, 0 if there is none
FirstOfType(s, ty) ==
  IF \E i \in 1..Len(s) : s[i].type = ty
  THEN CHOOSE i \in 1..Len(s) :
         s[i].type = ty /\ \A j \in 1..(i - 1) : s[j].type # ty
  ELSE 0

\* C28: detect_intents returns at most one intent per type, sorted by
\* non-increasing confidence; intents of equal confidence keep their
\* detection order, keyword intents before completion-service intents; a
\* completion-service intent is included only if no keyword intent of its
\* type is present.
C28_RankedOnePerType ==
  pc = "applied" =>
    LET found == out.intents
        keyword == KeywordIntents[args.message]
        n == Len(found)
    IN  /\ \A i, j \in 1..n : i # j => found[i].type # found[j].type
        /\ \A i \in 1..(n - 1) : found[i].confidence >= found[i + 1].confidence
        /\ \A i \in 1..n :
             /\ FirstOfType(Detected, found[i].type) > 0
             /\ found[i] = Detected[FirstOfType(Detected, found[i].type)]
        /\ \A i, j \in 1..n :
             i < j /\ found[i].confidence = found[j].confidence =>
               FirstOfType(Detected, found[i].type)
                 < FirstOfType(Detected, found[j].type)
        /\ \A k \in 1..Len(keyword) : \E i \in 1..n : found[i] = keyword[k]

\* a long message with two keyword intents at 0.3; the completion service
\* answers a rent intent at 0.8, which is not taken, and a screening intent
\* at 0.3, which is ranked after the keyword intents
C28_Witness ==
  /\ pc = "applied"
  /\ args.message = "m_long_rent"
  /\ args.response.kind = "json"
  /\ args.response.intents =
       <<[type |-> "rent_prediction", confidence |-> 8],
         [type |-> "tenant_screening", confidence |-> 3]>>
  /\ out.intents =
       <<[type |-> "rent_prediction", confidence |-> 3],
         [type |-> "greeting", confidence |-> 3],
         [type |-> "tenant_screening", confidence |-> 3]>>

\* C29: when the completion-service intent pass raises or its response
\* cannot be parsed, the pass contributes nothing: detect_intents returns
\* exactly the ranked keyword intents, and nothing is raised.
C29_FailedPassContributesNothing ==
  pc = "applied" /\ args.response.kind # "json" =>
    out.intents = SortByConfidence(KeywordIntents[args.message])

\* the pass is run and fails, on a message with keyword intents and on one
\* without
C29_Witness ==
  /\ pc = "applied"
  /\ args.response.kind \in {"raises", "not_json"}
  /\ NeedsLLMPass[args.message]
  /\ args.message = "m_long_rent"
  /\ Len(out.intents) = 2

\* ---------------------------------------------------------------------
\* the turns of a handler around its confirmation test

\* the required fields a field set lacks or holds a default value for
MissingFields(task, fields) ==
  {f \in Required(task) : f \notin DOMAIN fields \/ fields[f] = 0}

\* the field names in the reply of an ask_for_info result: the rent and the
\* maintenance handler join the missing names of the field set they tested,
\* the screening handler answers with one sentence that names all five
AskForInfoListed(task, fields) ==
  IF task = "tenant_screening" THEN Required(task)
  ELSE MissingFields(task, fields)

\* the messages a handler is examined on
HandleMessages == {"m_yes", "m_go_ahead", "m_hello", "m_1bed", "m_rent_1bed"}

\* the field sets a caller may hold for a task: any of its required fields,
\* each with a default or a non-default value
FieldSetsOf(task) ==
  UNION {[S -> 0..MaxVal] : S \in SUBSET Required(task)}

HandleArgs ==
  UNION {UNION {[task : {task}, message : {m}, last : FieldSetsOf(task),
                env : {env}, llm_intents : detect_llm_intents(m, env)] :
                  m \in HandleMessages, env \in Envs} :
           task \in Tasks}

HandleInit ==
  /\ NoConversation
  /\ NoServer
  /\ pc = "args"
  /\ args \in HandleArgs
  /\ out = <<>>

\* handler.handle(conversation_history, user_message, last_candidate_fields)
HandleTurn ==
  /\ pc = "args"
  /\ out' \in Handle(args.task, args.message, args.last, args.env, args.llm_intents)
  /\ pc' = "applied"
  /\ UNCHANGED <<args, conversation, server>>

HandleNext == HandleTurn

SpecHandle == HandleInit /\ [][HandleNext]_vars

\* C24: when the message is a confirmation phrase but some required field
\* of the task is missing or default, the handler invokes no computation,
\* returns ask_for_info with a reply that lists exactly the missing
\* required field names, keeps the task active and returns the accumulated
\* fields unchanged, in the rent, screening and maintenance handlers.
C24_ConfirmingWithMissingFieldsAsks ==
  /\ pc = "applied"
  /\ IsConfirmation[args.message]
  /\ MissingFields(args.task, args.last) # {}
  /\ out.call.gate
  => /\ ~out.call.ran
     /\ ~out.raised
     /\ out.action = "ask_for_info"
     /\ out.action # ExecutedTag(args.task)
     /\ AskForInfoListed(args.task, out.call.fields)
          = MissingFields(args.task, args.last)
     /\ out.fields = args.last

\* C25: in every non-confirming turn after which all required fields of
\* the task are filled, the handler emits the field summary that asks the
\* user to confirm and invokes no computation in that turn, in the rent,
\* screening and maintenance handlers.
C25_FilledFieldsAreSummarized ==
  /\ pc = "applied"
  /\ ~IsConfirmation[args.message]
  /\ ~out.raised
  /\ MissingFields(args.task, out.fields) = {}
  => /\ out.response = "summary"
     /\ ~out.call.ran

\* the value a field set holds for a field, the default if it holds none
ValueIn(fields, f) == IF f \in DOMAIN fields THEN fields[f] ELSE 0

\* C26: on an executing turn the field values passed to the computation
\* are exactly the accumulated values the turn started with; the confirming
\* message adds or changes no value, whatever the completion service
\* extracts while processing it.
C26_ExecutesOnAccumulatedValues ==
  pc = "applied" /\ out.call.ran =>
    \A f \in Required(args.task) :
      ValueIn(out.call.fields, f) = ValueIn(args.last, f)

\* ---------------------------------------------------------------------
\* overwriting across turns

\* the confidence recorded for the fields the first call has linked
RecordedConfidence ==
  LinkedWithConfidence(args.entities, args.intents, args.current_fields).tracked

\* C27: the linker overwrites a field already present in the accumulated
\* fields only if the new entity's confidence exceeds the confidence
\* recorded for the existing value, also when the value was accumulated in
\* an earlier turn and its field set returned by an earlier link_entities
\* call.
C27_OverwriteNeedsHigherConfidence ==
  pc = "later" /\ ~out.after.raised =>
    \A f \in DOMAIN RecordedConfidence :
      out.after.fields[f] # out.once.fields[f] =>
        \E i \in 1..Len(out.later) :
          out.later[i].confidence > RecordedConfidence[f]

\* C30: every key of the accumulated field set that is handed to a task
\* handler, or returned in a turn result, is a canonical field name of the
\* required-field schema of that task; entity labels and other names never
\* appear as keys.
C30_KeysAreCanonicalFieldNames ==
  pc = "returned" /\ ~result.raised /\ result.calls # <<>> =>
    /\ DOMAIN result.fields \subseteq Required(LastCall.task)
    /\ \A i \in 1..Len(result.calls) :
         DOMAIN result.calls[i].fields \subseteq Required(result.calls[i].task)

\* ---------------------------------------------------------------------
\* C38: for every input entity list, the list that deduplication returns
\* holds no two entities whose character spans overlap.
C38_NoOverlapAfterDeduplication ==
  pc = "applied" =>
    \A i, j \in 1..Len(out) : i # j => ~Overlaps(out[i], out[j])

\* three entities, the second overlapping the first and the third: the
\* second has replaced the first and the third is dropped, or the like
C38_Witness ==
  /\ pc = "applied"
  /\ Len(args) = 3
  /\ Overlaps(args[1], args[2]) /\ Overlaps(args[2], args[3])
  /\ ~Overlaps(args[1], args[3])
  /\ args[2].confidence > args[1].confidence
  /\ Len(out) < 3

\* C36: link_entities returns a field set for every entity list the
\* extractor can produce, whatever the labels of the entities (PERSON and
\* ORGANIZATION entities of the statistical extractor included); it never
\* raises.
C36_LinkingNeverRaises ==
  pc = "linked" => ~out.once.raised

\* C37: in every formatted screening result the headline agrees with the
\* recommendation of the rule engine: Accept gives 'Tenant Approved', Review
\* gives 'Requires Further Review' and Reject gives 'Tenant Rejected', in
\* both copies of the screening handler.
C37_HeadlineAgreesWithRecommendation ==
  pc = "formatted" =>
    out.headline =
      (CASE out.recommendation = "Accept" -> "Tenant Approved"
         [] out.recommendation = "Review" -> "Tenant Requires Further Review"
         [] out.recommendation = "Reject" -> "Tenant Rejected")

\* ---------------------------------------------------------------------
\* one collecting turn of the screening handler: the field set handed in,
\* what extract_fields finds in the user message, what it finds in the reply

\* values of a screening field: 0 is '' / 0 / False, eviction_record has
\* one other value (True), the others two
CollectValues(f) == IF f = "eviction_record" THEN {0, 1} ELSE {0, 1, 2}

\* parsed.dict() over the five fields of the screening schema
ScreeningFieldSets ==
  {fs \in [Required("tenant_screening") -> {0, 1, 2}] :
     \A f \in DOMAIN fs : fs[f] \in CollectValues(f)}

\* the field sets held before the turn: two of them, with and without an
\* eviction on record
CollectedBefore ==
  {fs \in ScreeningFieldSets :
     /\ fs["credit_score"] = 1 /\ fs["income"] \in {0, 1}
     /\ fs["rent"] = 1 /\ fs["employment_status"] = 1}

CollectArgs ==
  [last : CollectedBefore,
   new_fields : ScreeningFieldSets,
   reply_fields : ReplyExtractChoices("tenant_screening")]

CollectInit ==
  /\ NoConversation
  /\ NoServer
  /\ pc = "args"
  /\ args \in CollectArgs
  /\ out = <<>>

\* TenantScreeningHandler.handle on a message that is no confirmation
CollectTurn ==
  /\ pc = "args"
  /\ out' = MergeNonDefault(TenantFields(args.last, args.new_fields),
                            args.reply_fields)
  /\ pc' = "applied"
  /\ UNCHANGED <<args, conversation, server>>

CollectNext == CollectTurn

SpecCollect == CollectInit /\ [][CollectNext]_vars

\* a value a user can mean for a screening field: any truth value for the
\* eviction record, a non-empty value for the others
ValidValue(f, v) == f = "eviction_record" \/ v # 0

\* C35: for every required screening field, a different valid value
\* supplied in a later collecting turn replaces the value accumulated
\* earlier; an eviction_record accumulated as true can be corrected to
\* false before confirmation.
C35_LaterValueReplacesEarlier ==
  pc = "applied" =>
    \A f \in Required("tenant_screening") :
      (ValidValue(f, args.new_fields[f]) /\ args.new_fields[f] # args.last[f]
         /\ args.reply_fields[f] = 0)
        => out[f] = args.new_fields[f]

(***************************** one connection, frame by frame ***************)
\* the connection looked at
TheSession == 1

\* most chat messages the connection sends
MaxChats == 2

\* most records the file saved_properties.csv is let grow to
MaxSaved == 1

\* texts a frame can carry besides the chat messages
FrameTexts ==
  [ t_empty |-> <<>>
  , t_save |-> <<" ","S","a","v","e"," ">>
  , t_compare |-> <<"c","o","m","p","a","r","e">>
  , t_compare_amp_save |-> <<"C","o","m","p","a","r","e"," ","&"," ","s","a","v","e">>
  , t_compare_and_save |-> <<"c","o","m","p","a","r","e"," ","a","n","d"," ","s","a","v","e">>
  ]

\* the chat messages of the connection
SessionMessages == {"m_yes", "m_rent_1bed"}

\* the intent the frontend may send along with a message
SessionIntents == {"none", "rent_prediction", "tenant_screening"}

\* the characters of a message
TextOf(m) == IF m \in DOMAIN FrameTexts THEN FrameTexts[m] ELSE MessageText[m]

\* followup_map of ChatConsumer.receive
followup_map ==
  ( <<"c","o","m","p","a","r","e">> :> "compare" ) @@
  ( <<"s","a","v","e">> :> "save" ) @@
  ( <<"c","o","m","p","a","r","e"," ","&"," ","s","a","v","e">> :> "both" ) @@
  ( <<"c","o","m","p","a","r","e"," ","a","n","d"," ","s","a","v","e">> :> "both" )

\* the actions the follow-up branch of ChatConsumer.receive accepts
FollowupActions == {"save", "compare", "both"}

\* json.loads(text_data): "invalid" raises JSONDecodeError, "array" is a
\* JSON text that is no object, "object" a dict with the keys given
\* ("none" for a key that is absent)
Frame(json, type, action, message, intent) ==
  [json |-> json, type |-> type, action |-> action,
   message |-> message, intent |-> intent]

\* the frames the connection can receive
Frames ==
  {Frame("invalid", "none", "none", "none", "none"),
   Frame("array", "none", "none", "none", "none"),
   Frame("object", "get_alerts", "none", "none", "none"),
   Frame("object", "followup", "delete", "none", "none")}
  \cup {Frame("object", "followup", a, "none", "none") : a \in FollowupActions}
  \cup {Frame("object", "none", "none", t, "none") : t \in DOMAIN FrameTexts}
  \cup {Frame("object", "none", "none", m, i) :
          m \in SessionMessages, i \in SessionIntents}

\* the data files under Rent_Pricing_AI can be read, or opening one raises
DataFiles == {"readable", "missing"}

\* one way handle_followup can end
FollowupEnd(reply, raised, store) ==
  [reply |-> reply, raised |-> raised, store |-> store]

\* find_similar inside handle_followup reads pred['BEDROOMS'] and pred['SIZE']
CanCompare(last_prediction) ==
  {"BEDROOMS", "SIZE"} \subseteq DOMAIN last_prediction

\* RentPredictionHandler.handle_followup(action, last_prediction), with the
\* records of saved_properties.csv before and after; every reply of the
\* compare and both branches begins with the sentence of the save branch
handle_followup(action, last_prediction, store) ==
  IF last_prediction = EmptyFields
  THEN {FollowupEnd("no_prediction", FALSE, store)}
  ELSE UNION {
         IF files = "missing"
         THEN \* open(property_type_map.json) raises
              {FollowupEnd("none", TRUE, store)}
         ELSE CASE action = "save" ->
                     {FollowupEnd("saved", FALSE, store)}
                [] action = "compare" ->
                     IF CanCompare(last_prediction)
                     THEN {FollowupEnd("saved", FALSE, store)}
                     ELSE {FollowupEnd("none", TRUE, store)}
                [] action = "both" ->
                     LET written == Append(store, last_prediction)
                     IN  IF CanCompare(last_prediction)
                         THEN {FollowupEnd("saved", FALSE, written)}
                         ELSE {FollowupEnd("none", TRUE, written)}
                [] OTHER ->
                     {FollowupEnd("unknown_action", FALSE, store)} :
         files \in DataFiles }

\* one way ChatConsumer.receive can end: the attributes of the consumer,
\* the file, what is memoized, the models read, the frames sent in order,
\* and whether an exception left receive
Handled(self, store, cache, loads, sent, raised) ==
  [self |-> self, store |-> store, cache |-> cache, loads |-> loads,
   sent |-> sent, raised |-> raised]

\* the follow-up branches of ChatConsumer.receive: the exception of
\* handle_followup is caught and answered
AnswerFollowup(self, action, store, cache) ==
  { Handled(self, e.store, cache, {},
            << IF e.raised THEN "could_not_process" ELSE e.reply >>, FALSE) :
      e \in handle_followup(action, self.last_rent_prediction, store) }

\* ChatConsumer.receive(text_data)
receive(self, frame, store, cache) ==
  IF frame.json = "invalid"
  THEN {Handled(self, store, cache, {}, <<"invalid_format">>, FALSE)}
  ELSE IF frame.json # "object"
  THEN \* data.get raises AttributeError, which nothing catches: the
       \* server closes the connection and drops the instance
       {Handled([FreshConsumer EXCEPT !.open = FALSE], store, cache, {}, <<>>, TRUE)}
  ELSE IF frame.type = "get_alerts"
  THEN {Handled(self, store, cache, {}, <<"alerts">>, FALSE)}
  ELSE IF frame.type = "followup" /\ frame.action \in FollowupActions
  THEN AnswerFollowup(self, frame.action, store, cache)
  ELSE LET message == IF frame.message = "none" THEN <<>> ELSE TextOf(frame.message)
       IN  IF message = <<>>
           THEN {Handled(self, store, cache, {}, <<"empty_message">>, FALSE)}
           ELSE IF Lower(Strip(message)) \in DOMAIN followup_map
           THEN AnswerFollowup(self, followup_map[Lower(Strip(message))], store, cache)
           ELSE { Handled(turn.self, store, turn.cache, turn.loads,
                          <<turn.action>>, FALSE) :
                    turn \in ChatTurn(self, frame.message, frame.intent, cache) }

\* the chat messages the connection has sent since it was opened
Chats == Turns(TheSession)

\* a frame that reaches the conversational engine
IsChat(frame) ==
  /\ frame.json = "object"
  /\ frame.type \notin {"get_alerts"}
  /\ ~(frame.type = "followup" /\ frame.action \in FollowupActions)
  /\ frame.message \in SessionMessages

NoFrame == Frame("none", "none", "none", "none", "none")

\* the request handled last: the frame, the frames sent in answer, and
\* whether receive raised
Request(frame, h) ==
  [session |-> TheSession, loads |-> h.loads, frame |-> frame,
   sent |-> h.sent, raised |-> h.raised]

SessionInit ==
  /\ NoConversation
  /\ pc = "idle"
  /\ args = <<>>
  /\ out = <<>>
  /\ consumers = [i \in Sessions |-> [FreshConsumer EXCEPT !.open = FALSE]]
  /\ models = [cache |-> NoModel, loaded |-> {}]
  /\ request = [session |-> 0, loads |-> {}, frame |-> NoFrame,
                sent |-> <<>>, raised |-> FALSE]
  /\ loader = <<>>
  /\ saved_properties = <<>>

\* ChatConsumer.connect
SessionConnect ==
  /\ ~StateOf(TheSession).open
  /\ consumers' = [consumers EXCEPT ![InstanceOf(TheSession)] = FreshConsumer]
  /\ request' = [session |-> TheSession, loads |-> {}, frame |-> NoFrame,
                 sent |-> <<>>, raised |-> FALSE]
  /\ UNCHANGED <<models, pc, args, out, conversation, loader, saved_properties>>

\* ChatConsumer.receive, any frame: handled to its end before the next
\* frame of the connection is dispatched
SessionReceive ==
  /\ StateOf(TheSession).open
  /\ \E frame \in Frames :
       /\ IsChat(frame) => Chats < MaxChats
       /\ \E h \in receive(StateOf(TheSession), frame, saved_properties, models.cache) :
            /\ Len(h.store) <= MaxSaved
            /\ consumers' = [consumers EXCEPT ![InstanceOf(TheSession)] = h.self]
            /\ saved_properties' = h.store
            /\ models' = [cache |-> h.cache, loaded |-> models.loaded \cup h.loads]
            /\ request' = Request(frame, h)
  /\ UNCHANGED <<pc, args, out, conversation, loader>>

SessionNext == SessionConnect \/ SessionReceive

SpecSession == SessionInit /\ [][SessionNext]_vars

\* ---------------------------------------------------------------------
\* a turn of the connection that executed a rent prediction has just ended
RentPredictionExecuted == request.sent = <<"rent_prediction">>

\* C32: the stored last rent prediction of a session is set only by a turn
\* that executed a rent prediction, and then holds the field set of that
\* turn; no other turn (an executed tenant screening in particular)
\* changes it.
C32_OnlyRentPredictionIsStored ==
  [][(StateOf(TheSession).open /\ StateOf(TheSession)'.open) =>
       IF RentPredictionExecuted'
       THEN /\ DOMAIN StateOf(TheSession)'.last_rent_prediction
                 = Required("rent_prediction")
            /\ \A f \in Required("rent_prediction") :
                 StateOf(TheSession)'.last_rent_prediction[f]
                   = StateOf(TheSession)'.candidate_fields[f]
       ELSE StateOf(TheSession)'.last_rent_prediction
              = StateOf(TheSession).last_rent_prediction]_vars

\* a frame that takes one of the two follow-up branches of receive
IsFollowup(frame) ==
  /\ frame.json = "object"
  /\ frame.type # "get_alerts"
  /\ \/ frame.type = "followup" /\ frame.action \in FollowupActions
     \/ /\ frame.message \in DOMAIN FrameTexts
        /\ Lower(Strip(TextOf(frame.message))) \in DOMAIN followup_map

\* a turn of the session has executed a rent prediction
RentPredictionSeen(history) ==
  \E i \in 1..Len(history) :
    history[i].role = "assistant" /\ history[i].content = "rent_prediction"

\* C33: a follow-up request (save, compare or both) received in a session
\* in which no rent prediction has been executed is answered with the 'No
\* property prediction found' reply, writes nothing to the saved-properties
\* store and changes neither the conversation history nor the accumulated
\* fields.
C33_FollowupWithoutPrediction ==
  [][(/\ StateOf(TheSession).open
      /\ IsFollowup(request'.frame)
      /\ ~RentPredictionSeen(StateOf(TheSession).conversation_history)) =>
       /\ request'.sent = <<"no_prediction">>
       /\ saved_properties' = saved_properties
       /\ StateOf(TheSession)'.conversation_history
            = StateOf(TheSession).conversation_history
       /\ StateOf(TheSession)'.candidate_fields
            = StateOf(TheSession).candidate_fields]_vars

\* C34: a follow-up reply stating that the property and prediction were
\* saved is returned only after the prediction record has been appended to
\* the saved-properties file, for each of the actions save, compare and
\* both.
C34_SavedReplyMeansRecordAppended ==
  [][(/\ StateOf(TheSession).open
      /\ IsFollowup(request'.frame)
      /\ request'.sent = <<"saved">>) =>
       saved_properties' =
         Append(saved_properties, StateOf(TheSession).last_rent_prediction)]_vars

\* C31: every frame a session receives is handled to its end before the
\* next one and answered with exactly one response frame; the conversation
\* history grows by one user entry followed by one assistant entry for a
\* chat message, and is unchanged for alert requests, follow-up actions,
\* empty messages and unparseable payloads.
C31_OneResponsePerFrame ==
  [][(StateOf(TheSession).open /\ request'.frame # NoFrame) =>
       /\ Len(request'.sent) = 1
       /\ LET before == StateOf(TheSession).conversation_history
              after == StateOf(TheSession)'.conversation_history
          IN  IF IsChat(request'.frame)
              THEN /\ Len(after) = Len(before) + 2
                   /\ SubSeq(after, 1, Len(before)) = before
                   /\ after[Len(before) + 1].role = "user"
                   /\ after[Len(before) + 1].content = request'.frame.message
                   /\ after[Len(before) + 2].role = "assistant"
                   /\ after[Len(before) + 2].content = request'.sent[1]
              ELSE after = before]_vars
====
